---- MODULE Spec2Model ----
(***************************************************************************)
(* A model of the Azure DevOps Test Case Uploader (src/app.py).            *)
(*                                                                         *)
(* Text values (Python str) are sequences of chunks.  A chunk is a TLA+    *)
(* string standing for one or more characters that the code never looks    *)
(* inside.  A whitespace character at an end of a text, and every          *)
(* character of a free-text cell, is a chunk of its own, as is each of     *)
(* & < > " ' wherever it occurs, so that str.strip(), the text normalizer  *)
(* and the XML escape are computed on the sequence.  "" is <<>>.           *)
(* The float NaN that pandas stores for an empty CSV cell is the value     *)
(* NaN; str(NaN) is the text "nan".                                        *)
(* A dict is a function from its keys; a key that is absent from the dict  *)
(* is absent from the function's DOMAIN.                                   *)
(***************************************************************************)
EXTENDS Integers, Sequences, FiniteSets, TLC

\* ------------------------------------------------------------------------
\* Bounds of the model
\* ------------------------------------------------------------------------

\* the largest number of rows of an input table that has every column
MaxRows == 3

\* the largest number of rows of an input table that lacks some column
MaxPartRows == 2

\* the largest number of rows of the table whose test cases an upload run is given
MaxCases == 3

\* the batch size of the upload runs explored (the program's is 1000)
BATCH_SIZE == 2

\* ------------------------------------------------------------------------
\* Python / pandas values
\* ------------------------------------------------------------------------

None == [py |-> "None"]

NaN == <<"float:nan">>

isna(x) == x = NaN

notna(x) == x # NaN

\* str(x) of a cell value: a str is itself, the float NaN prints as nan
str(x) == IF x = NaN THEN <<"nan">> ELSE x

IsSpace(c) == c \in {" ", "\t", "\n"}

RECURSIVE lstrip(_)
lstrip(s) == IF s # <<>> /\ IsSpace(Head(s)) THEN lstrip(Tail(s)) ELSE s

RECURSIVE rstrip(_)
rstrip(s) ==
    IF s # <<>> /\ IsSpace(s[Len(s)]) THEN rstrip(SubSeq(s, 1, Len(s) - 1)) ELSE s

\* str.strip()
strip(s) == rstrip(lstrip(s))

\* truth value of a str
truthy(s) == s # <<>>

\* pandas ==: NaN equals nothing, itself included
pd_eq(a, b) == a # NaN /\ b # NaN /\ a = b

\* Series.unique(): first occurrences in order; NaN is kept, once
RECURSIVE unique(_)
unique(s) ==
    IF s = <<>> THEN <<>>
    ELSE LET init == unique(SubSeq(s, 1, Len(s) - 1))
             last == s[Len(s)]
         IN IF \E i \in 1..Len(init) : init[i] = last THEN init ELSE Append(init, last)

\* Series.dropna()
dropna(s) == SelectSeq(s, notna)

\* [f(x) for x in s]
Map(f(_), s) == [i \in 1..Len(s) |-> f(s[i])]

RECURSIVE Concat(_)
Concat(ss) == IF ss = <<>> THEN <<>> ELSE Head(ss) \o Concat(Tail(ss))

\* sep.join(names) of a list of names
RECURSIVE join(_, _)
join(sep, names) ==
    IF names = <<>> THEN <<>>
    ELSE IF Len(names) = 1 THEN <<names[1]>>
    ELSE <<names[1]>> \o sep \o join(sep, Tail(names))

\* row.get(col, default) of a Series: the default when the table has no such column
get(row, col, default) == IF col \in DOMAIN row THEN row[col] ELSE default

\* ------------------------------------------------------------------------
\* Text normalizer
\* ------------------------------------------------------------------------

\* index of the first ">" of s at or after position i, 0 when there is none
RECURSIVE FirstGt(_, _)
FirstGt(s, i) ==
    IF i > Len(s) THEN 0 ELSE IF s[i] = ">" THEN i ELSE FirstGt(s, i + 1)

\* re.sub(r'<[^>]+>', '', text): a "<", one or more characters that are not ">", a ">"
RECURSIVE remove_tags(_)
remove_tags(s) ==
    IF s = <<>> THEN <<>>
    ELSE LET j == FirstGt(s, 2)
         IN IF Head(s) = "<" /\ j >= 3
            THEN remove_tags(SubSeq(s, j + 1, Len(s)))
            ELSE <<Head(s)>> \o remove_tags(Tail(s))

IsPrefix(p, s) == Len(p) <= Len(s) /\ SubSeq(s, 1, Len(p)) = p

\* str.replace(old, new): leftmost occurrences, not overlapping, one pass
RECURSIVE replace(_, _, _)
replace(s, old, new) ==
    IF s = <<>> THEN <<>>
    ELSE IF IsPrefix(old, s)
         THEN new \o replace(SubSeq(s, Len(old) + 1, Len(s)), old, new)
         ELSE <<Head(s)>> \o replace(Tail(s), old, new)

\* ' '.join(s.split()): whitespace runs become one space, none at the ends
RECURSIVE collapse(_)
collapse(t) ==
    IF t = <<>> THEN <<>>
    ELSE IF IsSpace(Head(t))
         THEN LET r == lstrip(t) IN IF r = <<>> THEN <<>> ELSE <<" ">> \o collapse(r)
         ELSE <<Head(t)>> \o collapse(Tail(t))

join_split(s) == collapse(lstrip(s))

\* strip_html_tags(text)
strip_html_tags(text) ==
    IF ~truthy(text) \/ isna(text) THEN <<>>
    ELSE LET t0 == remove_tags(str(text))
             t1 == replace(t0, <<"&", "n", "b", "s", "p", ";">>, <<" ">>)
             t2 == replace(t1, <<"&", "a", "m", "p", ";">>, <<"&">>)
             t3 == replace(t2, <<"&", "l", "t", ";">>, <<"<">>)
             t4 == replace(t3, <<"&", "g", "t", ";">>, <<">">>)
             t5 == replace(t4, <<"&", "q", "u", "o", "t", ";">>, <<"\"">>)
             t6 == replace(t5, <<"&", "#", "3", "9", ";">>, <<"'">>)
         IN strip(join_split(t6))

\* ------------------------------------------------------------------------
\* Input tables
\* ------------------------------------------------------------------------

COL_CLASS == "Custom.TestCaseClassification"
COL_FORM == "Custom.FormName"
COL_TIER == "Custom.TestingTier"
COL_FIELD == "Custom.FieldName"
COL_EDIT == "Custom.EditCheckName"
COL_TEXT == "Custom.FieldorEditCheckText"
COL_AREA == "Area Path"
COL_STATE == "State"

\* the key under which a row carries its DataFrame index label (iterrows' idx)
INDEX == "index"

FORM_LEVEL == <<"Form Level">>
FIELD_LEVEL == <<"Field Level">>
EDIT_CHECK_LEVEL == <<"Edit Check Level">>

TIER_1 == <<"Tier 1">>
TIER_2 == <<"Tier 2">>
TIER_3 == <<"Tier 3">>

AllColumns ==
    {COL_CLASS, COL_FORM, COL_TIER, COL_FIELD, COL_EDIT, COL_TEXT, COL_AREA, COL_STATE}

\* the column sets explored beside AllColumns: the mandatory columns with the testing
\* tier, the mandatory columns alone, and the sets that lack a mandatory column
PartHeaders ==
    { {COL_CLASS, COL_FORM, COL_TIER}, {COL_CLASS, COL_FORM},
      AllColumns \ {COL_FORM}, AllColumns \ {COL_CLASS}, AllColumns \ {COL_CLASS, COL_FORM} }

\* the cells explored, column by column; an empty CSV cell is NaN
ClassCells == {FORM_LEVEL, FIELD_LEVEL, EDIT_CHECK_LEVEL}

FormCells == {<<"F1">>, <<"F2">>, NaN}

TierCells == {NaN, <<" ">>, TIER_1, <<"Tier 2", " ">>}

SampleNames == <<"AGE", "SEX", "DOB", "WT", "HT", "BMI">>

SampleTexts ==
    << NaN,
       <<"A", "g", "e">>,
       <<"<", "b", ">", "A", "g", "e", "<", "/", "b", ">", "&", "n", "b", "s", "p", ";",
         " ", "i", "n", " ", "y">> >>

SampleAreas == << NaN, <<"Study\\CRF">> >>

SampleStates == << <<"Ready">>, NaN >>

Cyc(samples, i) == samples[((i - 1) % Len(samples)) + 1]

\* the cell of row i in a column whose content never decides a branch of the code
FixedCell(col, i) ==
    CASE col = COL_FIELD -> <<Cyc(SampleNames, i)>>
      [] col = COL_EDIT -> <<"EC_", Cyc(SampleNames, i)>>
      [] col = COL_TEXT -> Cyc(SampleTexts, i)
      [] col = COL_AREA -> Cyc(SampleAreas, i)
      [] col = COL_STATE -> Cyc(SampleStates, i)

FreeColumns == {COL_CLASS, COL_FORM, COL_TIER}

FreeCells(col) ==
    CASE col = COL_CLASS -> ClassCells
      [] col = COL_FORM -> FormCells
      [] col = COL_TIER -> TierCells

\* the choices of the free cells of one row; a row without a form name is dropped
\* whatever its other cells are, so one such row stands for all of them
FreeChoices(columns) ==
    { f \in [columns \cap FreeColumns -> UNION {FreeCells(c) : c \in FreeColumns}] :
        /\ \A c \in columns \cap FreeColumns : f[c] \in FreeCells(c)
        /\ (COL_FORM \in columns /\ f[COL_FORM] = NaN) =>
              \A c \in (columns \cap FreeColumns) \ {COL_FORM} :
                  f[c] = IF c = COL_CLASS THEN FIELD_LEVEL ELSE TIER_1 }

\* the row at index i of a table with the given columns
MakeRow(columns, i, free) ==
    [c \in columns \cup {INDEX} |->
        IF c = INDEX THEN i ELSE IF c \in FreeColumns THEN free[c] ELSE FixedCell(c, i)]

\* the DataFrame with the given columns and the rows of the given free cells
MakeTable(columns, fs) ==
    [columns |-> columns, rows |-> [i \in 1..Len(fs) |-> MakeRow(columns, i, fs[i])]]

\* ------------------------------------------------------------------------
\* Test case builder (process_test_cases)
\* ------------------------------------------------------------------------

required_cols == <<COL_CLASS, COL_FORM>>

\* [col for col in required_cols if col not in df.columns]
missing_cols(df) == SelectSeq(required_cols, LAMBDA col : col \notin df.columns)

\* df[col] of the rows
Column(rows, col) == [i \in 1..Len(rows) |-> rows[i][col]]

\* df[df[col] == v]
Filter(rows, col, v) == SelectSeq(rows, LAMBDA r : pd_eq(r[col], v))

\* faulty variant: the error value also carries an empty list of test cases
error_state_with_cases(missing) ==
    [error |-> TRUE,
     message |-> <<"Missing required columns: ">> \o join(<<", ">>, missing)
                 \o <<". Please check your CSV file.">>,
     test_cases |-> <<>>]

\* the result of the processing step when the table lacks a mandatory column
error_state(missing) ==
    [error |-> TRUE,
     message |-> <<"Missing required columns: ">> \o join(<<", ">>, missing)
                 \o <<". Please check your CSV file.">>]

\* df['Custom.FormName'].dropna().unique()
unique_forms(df) == unique(dropna(Column(df.rows, COL_FORM)))

\* faulty variant: the inherited tier is not trimmed
form_level_tier_untrimmed(form_level) ==
    IF Len(form_level) > 0
    THEN LET tier_value == get(form_level[1], COL_TIER, <<>>)
         IN IF notna(tier_value) /\ truthy(strip(str(tier_value)))
            THEN [tier |-> str(tier_value), null |-> FALSE]
            ELSE [tier |-> <<>>, null |-> TRUE]
    ELSE [tier |-> <<>>, null |-> FALSE]

\* faulty variant: a form without a Form Level row is recorded too
form_level_tier_else_null(form_level) ==
    IF Len(form_level) > 0
    THEN LET tier_value == get(form_level[1], COL_TIER, <<>>)
         IN IF notna(tier_value) /\ truthy(strip(str(tier_value)))
            THEN [tier |-> strip(str(tier_value)), null |-> FALSE]
            ELSE [tier |-> <<>>, null |-> TRUE]
    ELSE [tier |-> <<>>, null |-> TRUE]

\* the tier Field and Edit Check rows inherit, and whether the form is recorded as
\* having a null Form Level tier
form_level_tier(form_level) ==
    IF Len(form_level) > 0
    THEN LET tier_value == get(form_level[1], COL_TIER, <<>>)
         IN IF notna(tier_value) /\ truthy(strip(str(tier_value)))
            THEN [tier |-> strip(str(tier_value)), null |-> FALSE]
            ELSE [tier |-> <<>>, null |-> TRUE]
    ELSE [tier |-> <<>>, null |-> FALSE]

form_level_steps ==
    << [step_number |-> 1,
        action |-> <<"Review all questions/fields on CRF against CRF specification">>,
        expected |-> <<"All expected fields are present on eCRF and text is accurate">>],
       [step_number |-> 2,
        action |-> <<"Review order of CRF questions">>,
        expected |-> <<"Order of eCRF questions is logical and accurate">>],
       [step_number |-> 3,
        action |-> <<"Review required data on each CRF">>,
        expected |-> <<"All required fields are indicated as such before or after save or proper queries are issued for missing data">>],
       [step_number |-> 4,
        action |-> <<"Review field dynamics against specification">>,
        expected |-> <<"All eCRF questions/fields are available as expected and hidden / not available as expected.">>] >>

\* the standalone test case of one Form Level row
standalone_case(form_name, row) ==
    [type |-> "standalone",
     title |-> form_name \o <<" - Form Review">>,
     form_name |-> form_name,
     classification |-> FORM_LEVEL,
     testing_tier |-> str(get(row, COL_TIER, <<>>)),
     description |-> strip_html_tags(get(row, COL_TEXT, <<>>)),
     area_path |-> str(get(row, COL_AREA, <<>>)),
     state |-> str(get(row, COL_STATE, <<"Design">>)),
     steps |-> form_level_steps]

\* the lambda that fills an empty or missing tier with the form level tier
inherit(x, form_level_testing_tier) ==
    IF isna(x) \/ ~truthy(strip(str(x))) THEN form_level_testing_tier ELSE x

\* the rows with the tier column filled, when the form has a form level tier
fill_tiers(rows, form_level_testing_tier) ==
    IF truthy(form_level_testing_tier)
    THEN [i \in 1..Len(rows) |->
            [rows[i] EXCEPT ![COL_TIER] = inherit(@, form_level_testing_tier)]]
    ELSE rows
\* faulty variant: the Tier 3 branch is missing, Tier 3 rows get the default text
field_expected_no_tier_3(tier_value, field_name, field_text) ==
    IF tier_value = TIER_1
    THEN <<"Correct variable name, label, SAS label, format, length, pick lists, value choices, calculation.">>
    ELSE IF tier_value = TIER_2
    THEN <<"Correct variable format, length, pick lists, value choices, calculation.">>
    ELSE <<"Field ", "'">> \o field_name \o <<"'", " validates correctly. ">> \o field_text

field_expected(tier_value, field_name, field_text) ==
    IF tier_value = TIER_1
    THEN <<"Correct variable name, label, SAS label, format, length, pick lists, value choices, calculation.">>
    ELSE IF tier_value = TIER_2
    THEN <<"Correct variable format, length, pick lists, value choices, calculation.">>
    ELSE IF tier_value = TIER_3
    THEN <<"Correct variable format, length, calculation.">>
    ELSE <<"Field ", "'">> \o field_name \o <<"'", " validates correctly. ">> \o field_text

edit_check_expected(tier_value, edit_check_name, edit_check_text) ==
    IF tier_value = TIER_1
    THEN <<"Positive Test in System Passes, Negative Test in System passes, Range Checks (high / low) pass, Query Text is correct and accurate and not leading. Sufficient Edit Checks are programmed">>
    ELSE IF tier_value = TIER_2
    THEN <<"Query Text is correct and accurate and not leading. Sufficient Edit Checks are programmed">>
    ELSE IF tier_value = TIER_3
    THEN <<"Sufficient Edit Checks are programmed.">>
    ELSE <<"Edit check ", "'">> \o edit_check_name \o <<"'", " functions correctly. ">>
         \o edit_check_text
\* faulty variant: the steps are numbered from 0, with len(steps) instead of len(steps) + 1
field_step_from_zero(row, n) ==
    LET field_name == str(get(row, COL_FIELD, <<>>))
        field_text == strip_html_tags(get(row, COL_TEXT, <<>>))
        tier_value == strip(str(get(row, COL_TIER, <<>>)))
    IN [step_number |-> n - 1,
        action |-> <<"Review field: ">> \o field_name
                   \o (IF truthy(field_text) THEN <<" (">> \o field_text \o <<")">>
                       ELSE <<>>),
        expected |-> field_expected(tier_value, field_name, field_text),
        field_name |-> field_name,
        idx |-> row[INDEX]]

\* the step of one Field Level row; n is len(steps) + 1
field_step(row, n) ==
    LET field_name == str(get(row, COL_FIELD, <<>>))
        field_text == strip_html_tags(get(row, COL_TEXT, <<>>))
        tier_value == strip(str(get(row, COL_TIER, <<>>)))
    IN [step_number |-> n,
        action |-> <<"Review field: ">> \o field_name
                   \o (IF truthy(field_text) THEN <<" (">> \o field_text \o <<")">>
                       ELSE <<>>),
        expected |-> field_expected(tier_value, field_name, field_text),
        field_name |-> field_name,
        idx |-> row[INDEX]]

\* the step of one Edit Check Level row; n is len(steps) + 1
edit_check_step(row, n) ==
    LET edit_check_name == str(get(row, COL_EDIT, <<>>))
        edit_check_text == strip_html_tags(get(row, COL_TEXT, <<>>))
        tier_value == strip(str(get(row, COL_TIER, <<>>)))
    IN [step_number |-> n,
        action |-> <<"Review Edit Check: ">> \o edit_check_name
                   \o (IF truthy(edit_check_text) THEN <<" (">> \o edit_check_text \o <<")">>
                       ELSE <<>>),
        expected |-> edit_check_expected(tier_value, edit_check_name, edit_check_text),
        edit_check_name |-> edit_check_name,
        idx |-> row[INDEX]]

\* faulty variant: the rows are not filtered by the tier value
tier_group_unfiltered(rows, testing_tier) == rows

\* the rows of one tier value among the (filled) rows: df[df[tier] == testing_tier]
tier_group(rows, testing_tier) == Filter(rows, COL_TIER, testing_tier)

\* the field_reviews test cases of one form: one for each tier value whose group is
\* not empty
field_cases(form_name, form_data, form_level_testing_tier) ==
    LET field_level ==
            fill_tiers(Filter(form_data, COL_CLASS, FIELD_LEVEL), form_level_testing_tier)
        tiers == unique(Column(field_level, COL_TIER))
        case(testing_tier) ==
            LET tier_data == tier_group(field_level, testing_tier)
                steps == [n \in 1..Len(tier_data) |-> field_step(tier_data[n], n)]
                first_row == tier_data[1]
            IN IF Len(tier_data) = 0 THEN <<>>
               ELSE << [type |-> "field_reviews",
                        title |-> form_name \o <<" - Field Reviews">>,
                        form_name |-> form_name,
                        classification |-> FIELD_LEVEL,
                        testing_tier |-> str(get(first_row, COL_TIER, <<>>)),
                        description |-> <<"Field-level validation for form ">> \o form_name
                                        \o <<". Total fields: ", ToString(Len(steps))>>,
                        area_path |-> str(get(first_row, COL_AREA, <<>>)),
                        state |-> str(get(first_row, COL_STATE, <<"Design">>)),
                        steps |-> steps] >>
    IN Concat([k \in 1..Len(tiers) |-> case(tiers[k])])

\* the edit_check_reviews test cases of one form
edit_check_cases(form_name, form_data, form_level_testing_tier) ==
    LET edit_check_level ==
            fill_tiers(Filter(form_data, COL_CLASS, EDIT_CHECK_LEVEL),
                       form_level_testing_tier)
        tiers == unique(Column(edit_check_level, COL_TIER))
        case(testing_tier) ==
            LET tier_data == tier_group(edit_check_level, testing_tier)
                steps == [n \in 1..Len(tier_data) |-> edit_check_step(tier_data[n], n)]
                first_row == tier_data[1]
            IN IF Len(tier_data) = 0 THEN <<>>
               ELSE << [type |-> "edit_check_reviews",
                        title |-> form_name \o <<" - Edit Check Reviews">>,
                        form_name |-> form_name,
                        classification |-> EDIT_CHECK_LEVEL,
                        testing_tier |-> str(get(first_row, COL_TIER, <<>>)),
                        description |-> <<"Edit check validation for form ">> \o form_name
                                        \o <<". Total checks: ", ToString(Len(steps))>>,
                        area_path |-> str(get(first_row, COL_AREA, <<>>)),
                        state |-> str(get(first_row, COL_STATE, <<"Design">>)),
                        steps |-> steps] >>
    IN Concat([k \in 1..Len(tiers) |-> case(tiers[k])])

\* df[col] raises KeyError when the table has no such column; the code reads the tier
\* column of the Field Level (Edit Check Level) rows of a form only when there are some
raises_KeyError(df) ==
    /\ COL_TIER \notin df.columns
    /\ \E i \in 1..Len(df.rows) :
          /\ notna(df.rows[i][COL_FORM])
          /\ df.rows[i][COL_CLASS] \in {FIELD_LEVEL, EDIT_CHECK_LEVEL}

\* the test cases of one form, in the order the loop body appends them
form_cases(df, form_name) ==
    LET form_data == Filter(df.rows, COL_FORM, form_name)
        form_level == Filter(form_data, COL_CLASS, FORM_LEVEL)
        form_level_testing_tier == form_level_tier(form_level).tier
    IN [k \in 1..Len(form_level) |-> standalone_case(form_name, form_level[k])]
       \o field_cases(form_name, form_data, form_level_testing_tier)
       \o edit_check_cases(form_name, form_data, form_level_testing_tier)

\* whether the loop body appends the form to forms_with_null_tiers
form_has_null_tier(df, form_name) ==
    form_level_tier(Filter(Filter(df.rows, COL_FORM, form_name), COL_CLASS, FORM_LEVEL)).null

\* the dict the processing step stores for a table that has both mandatory columns
processed_data(df) ==
    LET forms == unique_forms(df)
    IN [test_cases |-> Concat([k \in 1..Len(forms) |-> form_cases(df, forms[k])]),
        forms_with_null_tiers |->
            SelectSeq(forms, LAMBDA form_name : form_has_null_tier(df, form_name))]

\* ------------------------------------------------------------------------
\* Upload orchestrator (upload_to_devops): values
\* ------------------------------------------------------------------------

NA == [str |-> "N/A"]

IntCell(k) == [int |-> k]

Min(a, b) == IF a <= b THEN a ELSE b

\* len(s) characters of a text made of single-character chunks, s[:n]
Take(s, n) == SubSeq(s, 1, Min(n, Len(s)))

\* the transport failures of a request, and str(e) of each, character by character
Exceptions == {"Timeout", "ConnectionError"}

exception_text(e) ==
    CASE e = "Timeout" -> <<"t", "i", "m", "e", "d", " ", "o", "u", "t">>
      [] e = "ConnectionError" -> [i \in 1..60 |-> IF i % 10 = 0 THEN " " ELSE "x"]
      [] e = "JSONDecodeError" -> <<"E", "x", "p", "e", "c", "t", "i", "n", "g">>
      [] e = "SSLError" -> [i \in 1..260 |-> IF i % 10 = 0 THEN " " ELSE "s"]

\* the status codes the remote service answers a create and an update request with
CreateStatuses == {200, 201, 204, 400}

UpdateStatuses == {200, 400}

\* a response whose body is not the JSON of a work item: response.json()['id'] raises
NoJson == [invalid |-> TRUE]
\* faulty variant: the number of batches is rounded down
num_batches_floor(total) == total \div BATCH_SIZE

\* (total + BATCH_SIZE - 1) // BATCH_SIZE
num_batches_of(total) == (total + BATCH_SIZE - 1) \div BATCH_SIZE

\* the 'Batch' cell of a result row
batch_cell(batch_num, num_batches) == IF num_batches > 1 THEN IntCell(batch_num + 1) ELSE NA

\* the row appended to all_results
result_row(batch_num, num_batches, tc, status, work_item_id) ==
    [Batch |-> batch_cell(batch_num, num_batches),
     Title |-> tc.title,
     Status |-> status,
     WorkItemID |-> work_item_id,
     Steps |-> Len(tc.steps),
     Timestamp |-> <<"%H:%M:%S">>]

\* the progress snapshot published when a test case is started
running_progress(batch_num, num_batches, tc, overall_idx, total) ==
    [status |-> "running",
     current |-> overall_idx,
     total |-> total,
     batch |-> IF num_batches > 1 THEN IntCell(batch_num + 1) ELSE None,
     total_batches |-> IF num_batches > 1 THEN IntCell(num_batches) ELSE None,
     message |->
        IF num_batches > 1
        THEN <<"Batch ", ToString(batch_num + 1), "/", ToString(num_batches),
               " - Processing ">> \o tc.title
             \o <<" (", ToString(overall_idx), "/", ToString(total), ")">>
        ELSE <<"Processing: ">> \o tc.title
             \o <<" (", ToString(overall_idx), "/", ToString(total), ")">>]
\* faulty variant: the snapshot between two batches counts batches, not test cases
pause_progress_batches(batch_num, num_batches, end_idx, total) ==
    [status |-> "running",
     current |-> batch_num + 1,
     total |-> total,
     batch |-> IntCell(batch_num + 1),
     total_batches |-> IntCell(num_batches),
     message |-> <<"Completed batch ", ToString(batch_num + 1), "/", ToString(num_batches),
                   ". Pausing before next batch...">>]

\* the progress snapshot published between two batches
pause_progress(batch_num, num_batches, end_idx, total) ==
    [status |-> "running",
     current |-> end_idx,
     total |-> total,
     batch |-> IntCell(batch_num + 1),
     total_batches |-> IntCell(num_batches),
     message |-> <<"Completed batch ", ToString(batch_num + 1), "/", ToString(num_batches),
                   ". Pausing before next batch...">>]

\* the progress snapshot published when the run is over
complete_progress(num_batches, total) ==
    [status |-> "complete",
     current |-> total,
     total |-> total,
     batch |-> IF num_batches > 1 THEN IntCell(num_batches) ELSE None,
     total_batches |-> IF num_batches > 1 THEN IntCell(num_batches) ELSE None,
     message |-> <<"Upload complete! Processed ", ToString(total), " test cases">>
                 \o (IF num_batches > 1
                     THEN <<" across ", ToString(num_batches), " batches">> ELSE <<>>)]

patch_op(path, value) == [op |-> "add", path |-> path, value |-> value]
\* faulty variant: the test case's own area path comes before the area path input
work_item_data_own_first(tc, area_path_input) ==
    LET area_path == IF truthy(tc.area_path) THEN tc.area_path ELSE area_path_input
    IN << patch_op("/fields/System.Title", tc.title),
          patch_op("/fields/System.State", tc.state),
          patch_op("/fields/System.Description", tc.description) >>
       \o (IF truthy(area_path) THEN <<patch_op("/fields/System.AreaPath", area_path)>>
           ELSE <<>>)
       \o << patch_op("/fields/Custom.TestCaseClassification", tc.classification),
             patch_op("/fields/Custom.FormName", tc.form_name) >>
       \o (IF truthy(tc.testing_tier)
           THEN <<patch_op("/fields/Custom.TestingTier", tc.testing_tier)>> ELSE <<>>)

\* work_item_data: the JSON patch of the create request
work_item_data(tc, area_path_input) ==
    LET area_path == IF truthy(area_path_input) THEN area_path_input ELSE tc.area_path
    IN << patch_op("/fields/System.Title", tc.title),
          patch_op("/fields/System.State", tc.state),
          patch_op("/fields/System.Description", tc.description) >>
       \o (IF truthy(area_path) THEN <<patch_op("/fields/System.AreaPath", area_path)>>
           ELSE <<>>)
       \o << patch_op("/fields/Custom.TestCaseClassification", tc.classification),
             patch_op("/fields/Custom.FormName", tc.form_name) >>
       \o (IF truthy(tc.testing_tier)
           THEN <<patch_op("/fields/Custom.TestingTier", tc.testing_tier)>> ELSE <<>>)

\* escape_xml(text), character by character
RECURSIVE escape_xml(_)
escape_xml(text) ==
    IF text = <<>> THEN <<>>
    ELSE (CASE Head(text) = "&" -> <<"&", "a", "m", "p", ";">>
            [] Head(text) = "<" -> <<"&", "l", "t", ";">>
            [] Head(text) = ">" -> <<"&", "g", "t", ";">>
            [] Head(text) = "\"" -> <<"&", "q", "u", "o", "t", ";">>
            [] Head(text) = "'" -> <<"&", "a", "p", "o", "s", ";">>
            [] OTHER -> <<Head(text)>>) \o escape_xml(Tail(text))

\* steps_xml: the value of the update request
steps_xml(steps) ==
    <<"<steps id=\"0\" last=\"", ToString(Len(steps)), "\">">>
    \o Concat([k \in 1..Len(steps) |->
                <<"<step id=\"", ToString(steps[k].step_number), "\" type=\"ValidateStep\">",
                  "<parameterizedString isformatted=\"true\">&lt;DIV&gt;&lt;P&gt;">>
                \o escape_xml(steps[k].action)
                \o <<"&lt;/P&gt;&lt;/DIV&gt;</parameterizedString>",
                     "<parameterizedString isformatted=\"true\">&lt;DIV&gt;&lt;P&gt;">>
                \o escape_xml(steps[k].expected)
                \o <<"&lt;/P&gt;&lt;/DIV&gt;</parameterizedString>", "<description/>",
                     "</step>">>])
    \o <<"</steps>">>

create_request(tc, area_path_input) ==
    [method |-> "POST", url |-> <<"/wit/workitems/$Test Case?api-version=7.0">>,
     json |-> work_item_data(tc, area_path_input), timeout |-> 30]

update_request(tc, work_item_id) ==
    [method |-> "PATCH",
     url |-> <<"/wit/workitems/", ToString(work_item_id), "?api-version=7.0">>,
     json |-> <<patch_op("/fields/Microsoft.VSTS.TCM.Steps", steps_xml(tc.steps))>>,
     timeout |-> 30]

\* ------------------------------------------------------------------------
\* State
\* ------------------------------------------------------------------------

VARIABLES
    uploaded_data,          \* reactive value: the loaded table, or None
    processed_test_cases,   \* reactive value: None, the error dict or the result dict
    upload_results_data,    \* reactive value: None or the rows of the last upload run
    upload_progress_info,   \* reactive value: None or the last progress snapshot
    input,                  \* the form: organization, project, pat_token, dry_run, area_path
    handler,                \* the handler that ran last, "" before any has run
    exception,              \* the exception the last handler ended with, "" for none
    pc,                     \* where the upload run is: idle, begin, case, create, update, done
    test_cases,             \* upload_to_devops: the test cases of the run
    all_results,            \* upload_to_devops: the rows so far
    batch_num,              \* upload_to_devops: the batch, from 0
    idx,                    \* upload_to_devops: the test case in the batch, from 1
    work_item_id,           \* upload_to_devops: the id parsed from the create response
    inflight,               \* the request the run waits for, or None
    trace,                  \* what the run did so far: snapshots, sleeps, requests, responses
    remote,                 \* the work items of the remote service, in creation order
    validation_status,      \* reactive value: None or the result of the last validation
    validate_trace,         \* validate_connection: the requests of the last call, answered
    csv,                    \* download_processed: None or the table it yielded last
    text_in,                \* strip_html_tags: its argument text
    text_out                \* strip_html_tags: None or what it returned for text_in

build_vars == <<uploaded_data, processed_test_cases>>

upload_vars ==
    <<upload_results_data, upload_progress_info, input, pc, test_cases, all_results,
      batch_num, idx, work_item_id, inflight, trace, remote>>

\* the state of the handlers beside the builder and the upload run
other_vars == <<validation_status, validate_trace, csv, text_in, text_out>>

vars == <<build_vars, upload_vars, other_vars, handler, exception>>

\* ------------------------------------------------------------------------
\* process_test_cases
\* ------------------------------------------------------------------------

process_test_cases ==
    /\ pc = "idle"
    /\ handler' = "process_test_cases"
    /\ UNCHANGED <<uploaded_data, upload_vars, other_vars>>
    /\ LET df == uploaded_data
       IN IF df = None
          THEN processed_test_cases' = None /\ exception' = ""
          ELSE IF missing_cols(df) # <<>>
          THEN /\ processed_test_cases' = error_state(missing_cols(df))
               /\ exception' = ""
          ELSE IF raises_KeyError(df)
          THEN /\ exception' = "KeyError"
               /\ UNCHANGED processed_test_cases
          ELSE /\ processed_test_cases' = processed_data(df)
               /\ exception' = ""

\* ------------------------------------------------------------------------
\* upload_to_devops
\* ------------------------------------------------------------------------

total == Len(test_cases)

num_batches == num_batches_of(total)

start_idx == batch_num * BATCH_SIZE

end_idx == Min(start_idx + BATCH_SIZE, total)

batch_size == end_idx - start_idx

overall_idx == start_idx + idx

\* the test case of the loop body
tc == test_cases[overall_idx]

\* all([processed_data, organization, project, pat_token]): a dict of the processing
\* step is never empty
configured ==
    /\ processed_test_cases # None
    /\ truthy(input.organization)
    /\ truthy(input.project)
    /\ truthy(input.pat_token)

\* the events of the trace
progress_event(info) == [ev |-> "progress", info |-> info]

sleep_event(seconds) == [ev |-> "sleep", seconds |-> seconds]

request_event(case, request) == [ev |-> "request", case |-> case, request |-> request]

response_event(case, request, response) ==
    [ev |-> "response", case |-> case, request |-> request, response |-> response]

\* the snapshot upload_progress_info holds after the events
RECURSIVE last_progress(_, _)
last_progress(events, before) ==
    IF events = <<>> THEN before
    ELSE IF events[Len(events)].ev = "progress" THEN events[Len(events)].info
    ELSE last_progress(SubSeq(events, 1, Len(events) - 1), before)

\* the events are recorded, the last snapshot among them is the published one
record(events) ==
    /\ trace' = trace \o events
    /\ upload_progress_info' = last_progress(events, upload_progress_info)
\* faulty variant: the loop body ends without the rate limiting sleep
settle_skipped == <<>>

\* the rate limiting sleep that ends the loop body
settle == <<sleep_event(<<"0.5">>)>>

\* the end of the loop body for one test case, with the row it appended and the events
\* of the body: the next test case of the batch, or the pause and the next batch, or
\* the end of the run
next_case(results, events) ==
    /\ all_results' = results
    /\ inflight' = None
    /\ IF idx < batch_size
       THEN /\ record(events)
            /\ idx' = idx + 1
            /\ pc' = "case"
            /\ UNCHANGED <<batch_num, upload_results_data, handler>>
       ELSE IF num_batches > 1 /\ batch_num < num_batches - 1
       THEN /\ record(events
                      \o <<progress_event(pause_progress(batch_num, num_batches, end_idx, total)),
                           sleep_event(<<"2">>)>>)
            /\ batch_num' = batch_num + 1
            /\ idx' = 1
            /\ pc' = "case"
            /\ UNCHANGED <<upload_results_data, handler>>
       ELSE /\ upload_results_data' = results
            /\ record(events \o <<progress_event(complete_progress(num_batches, total))>>)
            /\ pc' = "done"
            /\ handler' = "upload_to_devops"
            /\ UNCHANGED <<batch_num, idx>>

\* the handler up to the first test case: the configuration and the processing result
\* are checked, the batches are counted
upload_begin ==
    /\ pc = "begin"
    /\ UNCHANGED <<build_vars, input, inflight, remote, exception, work_item_id, other_vars>>
    /\ IF ~configured
       THEN /\ record(<<progress_event(
                  [status |-> "error",
                   message |-> <<"Missing required configuration. Please fill all fields.">>])>>)
            /\ pc' = "done"
            /\ handler' = "upload_to_devops"
            /\ UNCHANGED <<upload_results_data, test_cases, all_results, batch_num, idx>>
       ELSE IF "error" \in DOMAIN processed_test_cases /\ processed_test_cases.error
       THEN /\ record(<<progress_event(
                  [status |-> "error",
                   message |-> <<"Cannot upload: ">> \o processed_test_cases.message])>>)
            /\ pc' = "done"
            /\ handler' = "upload_to_devops"
            /\ UNCHANGED <<upload_results_data, test_cases, all_results, batch_num, idx>>
       ELSE LET cases == processed_test_cases.test_cases
                n == num_batches_of(Len(cases))
            IN /\ test_cases' = cases
               /\ all_results' = <<>>
               /\ batch_num' = 0
               /\ idx' = 1
               /\ IF n = 0
                  THEN /\ upload_results_data' = <<>>
                       /\ record(<<progress_event(complete_progress(n, Len(cases)))>>)
                       /\ pc' = "done"
                       /\ handler' = "upload_to_devops"
                  ELSE /\ record(IF n > 1
                                 THEN <<progress_event(
                                          [status |-> "info",
                                           message |-> <<"Large upload detected: ",
                                                         ToString(Len(cases)),
                                                         " test cases will be processed in ",
                                                         ToString(n), " batches of up to ",
                                                         ToString(BATCH_SIZE),
                                                         " items each.">>]),
                                        sleep_event(<<"2">>)>>
                                 ELSE <<>>)
                       /\ pc' = "case"
                       /\ UNCHANGED <<upload_results_data, handler>>
\* faulty variant: the dry run switch is ignored, every test case is uploaded
case_start_uploads ==
    /\ pc = "case"
    /\ UNCHANGED <<build_vars, input, test_cases, remote, exception, work_item_id, other_vars>>
    /\ record(<<progress_event(running_progress(batch_num, num_batches, tc, overall_idx, total)),
                request_event(overall_idx, create_request(tc, input.area_path))>>)
    /\ inflight' = create_request(tc, input.area_path)
    /\ pc' = "create"
    /\ UNCHANGED <<upload_results_data, all_results, batch_num, idx, handler>>

\* a test case is started: the progress is published; a dry run records the row and goes
\* on to the next test case without the rate limiting sleep, a real run sends the create
\* request
case_start ==
    /\ pc = "case"
    /\ UNCHANGED <<build_vars, input, test_cases, remote, exception, work_item_id, other_vars>>
    /\ LET started ==
               progress_event(running_progress(batch_num, num_batches, tc, overall_idx, total))
       IN IF input.dry_run
          THEN next_case(Append(all_results,
                            result_row(batch_num, num_batches, tc, <<"Dry Run">>, NA)),
                         <<started, sleep_event(<<"0.05">>)>>)
          ELSE /\ record(<<started, request_event(overall_idx, create_request(tc, input.area_path))>>)
               /\ inflight' = create_request(tc, input.area_path)
               /\ pc' = "create"
               /\ UNCHANGED <<upload_results_data, all_results, batch_num, idx, handler>>

\* faulty variant: the row of a failure keeps the id of the last work item created
error_row_with_id(e) ==
    result_row(batch_num, num_batches, tc, <<"Error: ">> \o Take(exception_text(e), 50),
               IntCell(work_item_id))

\* faulty variant: only 200 counts as created
is_created_200(status_code) == status_code = 200

\* response.status_code in [200, 201]
is_created(status_code) == status_code \in {200, 201}

\* the row of a test case whose request raised
error_row(e) ==
    result_row(batch_num, num_batches, tc, <<"Error: ">> \o Take(exception_text(e), 50), None)
\* faulty variant: the transport failure of a create request is not caught and ends the
\* handler
create_raises_aborts ==
    /\ pc = "create"
    /\ \E e \in Exceptions :
          /\ record(<<response_event(overall_idx, inflight, [raise |-> e])>>)
          /\ exception' = e
    /\ inflight' = None
    /\ pc' = "done"
    /\ handler' = "upload_to_devops"
    /\ UNCHANGED <<build_vars, input, test_cases, remote, work_item_id, other_vars,
                   upload_results_data, all_results, batch_num, idx>>
\* faulty variant: a create request that raises is sent once more
create_raises_retries ==
    /\ pc = "create"
    /\ \E e \in Exceptions :
          IF Cardinality({k \in 1..Len(trace) :
                             trace[k].ev = "request" /\ trace[k].case = overall_idx}) < 2
          THEN /\ record(<<response_event(overall_idx, inflight, [raise |-> e]),
                           request_event(overall_idx, inflight)>>)
               /\ UNCHANGED <<inflight, pc, all_results, upload_results_data, batch_num,
                              idx, handler>>
          ELSE next_case(Append(all_results, error_row(e)),
                         <<response_event(overall_idx, inflight, [raise |-> e])>> \o settle)
    /\ UNCHANGED <<build_vars, input, test_cases, remote, exception, work_item_id, other_vars>>

\* the create request raises a transport failure
create_raises ==
    /\ pc = "create"
    /\ \E e \in Exceptions :
          next_case(Append(all_results, error_row(e)),
                    <<response_event(overall_idx, inflight, [raise |-> e])>> \o settle)
    /\ UNCHANGED <<build_vars, input, test_cases, remote, exception, work_item_id, other_vars>>

\* the remote service answers the create request.  With 200 or 201 it has created the
\* work item, whose JSON is the body unless the body cannot be read.  The run takes 200
\* and 201 for a created work item, reads its id and sends the update request that
\* attaches the steps, if the test case has steps
create_responds ==
    /\ pc = "create"
    /\ UNCHANGED <<build_vars, input, test_cases, exception, other_vars>>
    /\ \E status_code \in CreateStatuses :
          LET id == 101 + Len(remote)   \* the identifier the service assigns
              served == status_code \in {200, 201}
          IN /\ remote' = IF served
                          THEN Append(remote, [id |-> id, fields |-> inflight.json,
                                               case |-> overall_idx])
                          ELSE remote
             /\ \E body \in (IF served THEN {[id |-> id], NoJson} ELSE {NoJson}) :
                   LET response == [status_code |-> status_code, json |-> body]
                       answered == response_event(overall_idx, inflight, response)
                   IN IF ~is_created(response.status_code)
                      THEN /\ next_case(Append(all_results,
                                           result_row(batch_num, num_batches, tc,
                                                      <<"Failed (", ToString(status_code), ")">>,
                                                      None)),
                                        <<answered>> \o settle)
                           /\ UNCHANGED work_item_id
                      ELSE IF body = NoJson
                      THEN \* response.json()['id'] raises: the except branch
                           /\ next_case(Append(all_results, error_row("JSONDecodeError")),
                                        <<answered>> \o settle)
                           /\ UNCHANGED work_item_id
                      ELSE IF tc.steps # <<>>
                      THEN /\ work_item_id' = body.id
                           /\ inflight' = update_request(tc, body.id)
                           /\ record(<<answered,
                                       request_event(overall_idx, update_request(tc, body.id))>>)
                           /\ pc' = "update"
                           /\ UNCHANGED <<upload_results_data, all_results, batch_num, idx,
                                          handler>>
                      ELSE /\ work_item_id' = body.id
                           /\ next_case(Append(all_results,
                                           result_row(batch_num, num_batches, tc,
                                                      <<"Success">>, IntCell(body.id))),
                                        <<answered>> \o settle)

\* the update request raises a transport failure: the except branch
update_raises ==
    /\ pc = "update"
    /\ \E e \in Exceptions :
          next_case(Append(all_results, error_row(e)),
                    <<response_event(overall_idx, inflight, [raise |-> e])>> \o settle)
    /\ UNCHANGED <<build_vars, input, test_cases, remote, exception, work_item_id, other_vars>>

\* the remote service answers the update request; with 200 it has attached the steps.
\* The run does not look at the response
update_responds ==
    /\ pc = "update"
    /\ UNCHANGED <<build_vars, input, test_cases, exception, work_item_id, other_vars>>
    /\ \E status_code \in UpdateStatuses :
          /\ remote' = IF status_code = 200
                       THEN [k \in 1..Len(remote) |->
                               IF remote[k].id = work_item_id
                               THEN [remote[k] EXCEPT !.fields = @ \o inflight.json]
                               ELSE remote[k]]
                       ELSE remote
          /\ next_case(Append(all_results,
                          result_row(batch_num, num_batches, tc, <<"Success">>,
                                     IntCell(work_item_id))),
                       <<response_event(overall_idx, inflight,
                                        [status_code |-> status_code, json |-> NoJson])>>
                       \o settle)

\* ------------------------------------------------------------------------
\* Specification of the builder: any loaded table, then the processing step
\* ------------------------------------------------------------------------

NoUpload ==
    /\ upload_results_data = None
    /\ upload_progress_info = None
    /\ test_cases = <<>>
    /\ all_results = <<>>
    /\ batch_num = 0
    /\ idx = 1
    /\ work_item_id = 0
    /\ inflight = None
    /\ trace = <<>>
    /\ remote = <<>>
    /\ handler = ""
    /\ exception = ""
    /\ validation_status = None
    /\ validate_trace = <<>>
    /\ csv = None
    /\ text_in = None
    /\ text_out = None

\* tables are explored up to the names of their forms: the first form is F1
FirstFormIsF1(fs) ==
    \A i \in 1..Len(fs) :
        fs[i][COL_FORM] = <<"F2">> => \E j \in 1..(i - 1) : fs[j][COL_FORM] = <<"F1">>

LoadedBuild ==
    \/ uploaded_data = None
    \/ \E n \in 0..MaxRows : \E fs \in [1..n -> FreeChoices(AllColumns)] :
          /\ FirstFormIsF1(fs)
          /\ uploaded_data = MakeTable(AllColumns, fs)
    \/ \E h \in PartHeaders : \E n \in 0..MaxPartRows : \E fs \in [1..n -> FreeChoices(h)] :
          uploaded_data = MakeTable(h, fs)

EmptyForm ==
    [organization |-> <<>>, project |-> <<>>, pat_token |-> <<>>, dry_run |-> FALSE,
     area_path |-> <<>>]

InitBuild ==
    /\ LoadedBuild
    /\ processed_test_cases = None
    /\ input = EmptyForm
    /\ pc = "idle"
    /\ NoUpload

NextBuild == process_test_cases

SpecBuild == InitBuild /\ [][NextBuild]_vars

\* ------------------------------------------------------------------------
\* Specification of one upload run: the upload button is pressed with some table
\* processed (or none) and the form filled in some way
\* ------------------------------------------------------------------------

SampleRows ==
    << [c \in FreeColumns |->
          CASE c = COL_CLASS -> FORM_LEVEL [] c = COL_FORM -> <<"F1">> [] c = COL_TIER -> TIER_1],
       [c \in FreeColumns |->
          CASE c = COL_CLASS -> FIELD_LEVEL [] c = COL_FORM -> <<"F1">> [] c = COL_TIER -> NaN],
       [c \in FreeColumns |->
          CASE c = COL_CLASS -> EDIT_CHECK_LEVEL [] c = COL_FORM -> <<"F1">>
            [] c = COL_TIER -> <<"Tier 2", " ">>],
       [c \in FreeColumns |->
          CASE c = COL_CLASS -> FIELD_LEVEL [] c = COL_FORM -> <<"F2">>
            [] c = COL_TIER -> <<" ">>],
       [c \in FreeColumns |->
          CASE c = COL_CLASS -> EDIT_CHECK_LEVEL [] c = COL_FORM -> <<"F2">>
            [] c = COL_TIER -> TIER_1],
       [c \in FreeColumns |->
          CASE c = COL_CLASS -> FORM_LEVEL [] c = COL_FORM -> <<"F2">> [] c = COL_TIER -> NaN] >>

\* the table of the first n sample rows: each row makes one test case
SampleTable(n) == MakeTable(AllColumns, [i \in 1..n |-> Cyc(SampleRows, i)])

Forms ==
    { [organization |-> org, project |-> <<"CRF">>, pat_token |-> pat, dry_run |-> dry,
       area_path |-> area] :
      org \in {<<"iavi">>}, pat \in {<<>>, <<"pat">>}, dry \in BOOLEAN,
      area \in {<<>>, <<"Study\\Override">>} }

InitUpload ==
    /\ \E n \in 0..MaxCases :
          /\ uploaded_data = SampleTable(n)
          /\ processed_test_cases \in
                {None, error_state(<<COL_FORM>>), processed_data(SampleTable(n))}
    /\ input \in Forms
    /\ pc = "begin"
    /\ NoUpload

NextUpload ==
    \/ upload_begin
    \/ case_start
    \/ create_raises
    \/ create_responds
    \/ update_raises
    \/ update_responds

SpecUpload == InitUpload /\ [][NextUpload]_vars

\* ------------------------------------------------------------------------
\* Properties of the builder
\* ------------------------------------------------------------------------

\* the processing step has run on a table that has both mandatory columns
Processed ==
    /\ handler = "process_test_cases"
    /\ uploaded_data # None
    /\ COL_CLASS \in uploaded_data.columns
    /\ COL_FORM \in uploaded_data.columns

\* ... and has stored its result
Built == Processed /\ exception = "" /\ "test_cases" \in DOMAIN processed_test_cases

InputRows == uploaded_data.rows

Cases == processed_test_cases.test_cases

NullTierForms == processed_test_cases.forms_with_null_tiers

ReviewType(class) ==
    IF class = FIELD_LEVEL THEN "field_reviews"
    ELSE IF class = EDIT_CHECK_LEVEL THEN "edit_check_reviews" ELSE "standalone"

IsReviewRow(i) ==
    /\ InputRows[i][COL_FORM] # NaN
    /\ InputRows[i][COL_CLASS] \in {FIELD_LEVEL, EDIT_CHECK_LEVEL}

IsFormLevelRow(i) ==
    InputRows[i][COL_FORM] # NaN /\ InputRows[i][COL_CLASS] = FORM_LEVEL

\* the tier cell of row i, NaN when the table has no tier column
TierOf(i) == IF COL_TIER \in DOMAIN InputRows[i] THEN InputRows[i][COL_TIER] ELSE NaN

IsBlank(tier) == tier = NaN \/ \A k \in 1..Len(tier) : tier[k] \in {" ", "\t", "\n"}

\* the steps that derive from row i: <<t, k>> is step k of test case t
StepsOfRow(i) ==
    { tk \in UNION {{<<t, k>> : k \in 1..Len(Cases[t].steps)} : t \in 1..Len(Cases)} :
        /\ Cases[tk[1]].type = ReviewType(InputRows[i][COL_CLASS])
        /\ Cases[tk[1]].type # "standalone"
        /\ Cases[tk[1]].steps[tk[2]].idx = i }

RECURSIVE SumLen(_)
SumLen(ss) == IF ss = <<>> THEN 0 ELSE Len(Head(ss)) + SumLen(Tail(ss))

ReviewCases == SelectSeq(Cases, LAMBDA c : c.type # "standalone")

\* the forms of the table
FormNames == {InputRows[i][COL_FORM] : i \in 1..Len(InputRows)} \ {NaN}

\* the Form Level rows of a form, by index, and the first of them (0 when there is none)
FormLevelRows(f) ==
    {i \in 1..Len(InputRows) : InputRows[i][COL_FORM] = f /\ InputRows[i][COL_CLASS] = FORM_LEVEL}

FirstFormLevelRow(f) ==
    IF FormLevelRows(f) = {} THEN 0
    ELSE CHOOSE i \in FormLevelRows(f) : \A j \in FormLevelRows(f) : i <= j

\* C1: no row is lost or doubled: every Field Level and Edit Check Level row with a
\* form name gives exactly one step of exactly one test case, the review test cases
\* have as many steps as there are such rows, and every Form Level row gives one
\* standalone test case with the four fixed steps
C1_NoRowLost ==
    Built =>
        /\ \A i \in 1..Len(InputRows) : IsReviewRow(i) => Cardinality(StepsOfRow(i)) = 1
        /\ SumLen([t \in 1..Len(ReviewCases) |-> ReviewCases[t].steps])
             = Cardinality({i \in 1..Len(InputRows) : IsReviewRow(i)})
        /\ \A f \in FormNames :
              Cardinality({t \in 1..Len(Cases) :
                              Cases[t].type = "standalone" /\ Cases[t].form_name = f})
                = Cardinality(FormLevelRows(f))
        /\ \A t \in 1..Len(Cases) :
              Cases[t].type = "standalone" =>
                  /\ Len(Cases[t].steps) = 4
                  /\ Cases[t].steps = form_level_steps

\* the expected text of the three tiers, for the two kinds of review
TierText(class, tier) ==
    IF class = FIELD_LEVEL
    THEN CASE tier = <<"Tier 1">> ->
                <<"Correct variable name, label, SAS label, format, length, pick lists, value choices, calculation.">>
           [] tier = <<"Tier 2">> ->
                <<"Correct variable format, length, pick lists, value choices, calculation.">>
           [] tier = <<"Tier 3">> -> <<"Correct variable format, length, calculation.">>
    ELSE CASE tier = <<"Tier 1">> ->
                <<"Positive Test in System Passes, Negative Test in System passes, Range Checks (high / low) pass, Query Text is correct and accurate and not leading. Sufficient Edit Checks are programmed">>
           [] tier = <<"Tier 2">> ->
                <<"Query Text is correct and accurate and not leading. Sufficient Edit Checks are programmed">>
           [] tier = <<"Tier 3">> -> <<"Sufficient Edit Checks are programmed.">>

\* a text without the whitespace at its ends
Trimmed(s) ==
    LET keep == {k \in 1..Len(s) : s[k] \notin {" ", "\t", "\n"}}
    IN IF keep = {} THEN <<>>
       ELSE SubSeq(s, CHOOSE a \in keep : \A b \in keep : a <= b,
                      CHOOSE a \in keep : \A b \in keep : a >= b)

\* the form has a Form Level row and the tier of its (first) Form Level row is not blank
HasFormTier(f) == FirstFormLevelRow(f) # 0 /\ ~IsBlank(TierOf(FirstFormLevelRow(f)))

FormTier(f) == Trimmed(TierOf(FirstFormLevelRow(f)))

\* row i is in test case t, a review test case of its form and classification
InCase(i, t) ==
    /\ Cases[t].type = ReviewType(InputRows[i][COL_CLASS])
    /\ Cases[t].form_name = InputRows[i][COL_FORM]
    /\ \E k \in 1..Len(Cases[t].steps) : Cases[t].steps[k].idx = i

StepOf(i, t) == CHOOSE k \in 1..Len(Cases[t].steps) : Cases[t].steps[k].idx = i

\* C2: tier inheritance: in a form whose Form Level row has the tier T, not blank, a
\* Field Level or Edit Check Level row with a blank tier is in a test case whose
\* testing_tier is T trimmed, with the expected text of T; a row with a tier of its own
\* keeps it; and only forms whose Form Level tier is blank are in the null tier list
C2_TierInheritance ==
    Built =>
        /\ \A i \in 1..Len(InputRows) :
              (IsReviewRow(i) /\ HasFormTier(InputRows[i][COL_FORM])) =>
                  \E t \in 1..Len(Cases) :
                      /\ InCase(i, t)
                      /\ IF IsBlank(TierOf(i))
                         THEN /\ Cases[t].testing_tier = FormTier(InputRows[i][COL_FORM])
                              /\ Cases[t].steps[StepOf(i, t)].expected =
                                    TierText(InputRows[i][COL_CLASS],
                                             FormTier(InputRows[i][COL_FORM]))
                         ELSE /\ Cases[t].testing_tier = TierOf(i)
                              /\ Cases[t].steps[StepOf(i, t)].expected =
                                    TierText(InputRows[i][COL_CLASS], Trimmed(TierOf(i)))
        /\ \A n \in 1..Len(NullTierForms) :
              /\ FirstFormLevelRow(NullTierForms[n]) # 0
              /\ IsBlank(TierOf(FirstFormLevelRow(NullTierForms[n])))

\* a Field Level row with a blank tier has inherited the trimmed tier of a Form Level
\* row whose tier ends with a space
C2_Witness ==
    /\ Built
    /\ \E i \in 1..Len(InputRows) : \E t \in 1..Len(Cases) :
          /\ IsReviewRow(i)
          /\ TierOf(i) = NaN
          /\ HasFormTier(InputRows[i][COL_FORM])
          /\ TierOf(FirstFormLevelRow(InputRows[i][COL_FORM])) = <<"Tier 2", " ">>
          /\ InCase(i, t)
          /\ Cases[t].testing_tier = <<"Tier 2">>

\* the tier of row i after inheritance: its own unless that is blank and the form has a
\* Form Level tier
EffectiveTier(i) ==
    IF IsBlank(TierOf(i)) /\ HasFormTier(InputRows[i][COL_FORM])
    THEN FormTier(InputRows[i][COL_FORM]) ELSE TierOf(i)

\* C3: grouping never mixes tiers: the steps of a review test case come from rows of
\* one form, one classification and one effective tier, and two rows of a form and
\* classification with different effective tiers are in different test cases
C3_NoMixedTiers ==
    Built =>
        /\ \A t \in 1..Len(Cases) :
              Cases[t].type # "standalone" =>
                  \A k \in 1..Len(Cases[t].steps) :
                      LET i == Cases[t].steps[k].idx
                          j == Cases[t].steps[1].idx
                      IN /\ InputRows[i][COL_FORM] = Cases[t].form_name
                         /\ InputRows[i][COL_CLASS] = Cases[t].classification
                         /\ ReviewType(InputRows[i][COL_CLASS]) = Cases[t].type
                         /\ EffectiveTier(i) = EffectiveTier(j)
        /\ \A i, j \in 1..Len(InputRows) :
              (/\ IsReviewRow(i) /\ IsReviewRow(j)
               /\ InputRows[i][COL_FORM] = InputRows[j][COL_FORM]
               /\ InputRows[i][COL_CLASS] = InputRows[j][COL_CLASS]
               /\ EffectiveTier(i) # EffectiveTier(j)) =>
                  ~\E t \in 1..Len(Cases) : InCase(i, t) /\ InCase(j, t)

\* two Field Level rows of one form with the tiers Tier 1 and "Tier 2 " are in two test
\* cases
C3_Witness ==
    /\ Built
    /\ \E i, j \in 1..Len(InputRows) : \E t, u \in 1..Len(Cases) :
          /\ InputRows[i][COL_CLASS] = FIELD_LEVEL /\ InputRows[j][COL_CLASS] = FIELD_LEVEL
          /\ InputRows[i][COL_FORM] = InputRows[j][COL_FORM]
          /\ EffectiveTier(i) = <<"Tier 1">> /\ EffectiveTier(j) = <<"Tier 2", " ">>
          /\ InCase(i, t) /\ InCase(j, u) /\ t # u

\* the chunks of a text
Chunks(text) == {text[k] : k \in 1..Len(text)}

\* the processing step has run on a table that lacks a mandatory column
Rejected ==
    /\ handler = "process_test_cases"
    /\ uploaded_data # None
    /\ ~(COL_CLASS \in uploaded_data.columns /\ COL_FORM \in uploaded_data.columns)

\* C4: a table that lacks a mandatory column gives the error value, whose message names
\* the missing columns (and no other), with no test cases and no null tier list, and
\* no grouping step has run (none has raised); no result is both an error and a success
C4_MissingColumns ==
    /\ Rejected =>
          /\ exception = ""
          /\ DOMAIN processed_test_cases = {"error", "message"}
          /\ processed_test_cases.error = TRUE
          /\ \A col \in {COL_CLASS, COL_FORM} :
                col \in Chunks(processed_test_cases.message)
                    <=> col \notin uploaded_data.columns
    /\ ~({"error", "test_cases"} \subseteq DOMAIN processed_test_cases)
    /\ ~({"error", "forms_with_null_tiers"} \subseteq DOMAIN processed_test_cases)
    /\ Built => DOMAIN processed_test_cases = {"test_cases", "forms_with_null_tiers"}

\* a table with rows and without both mandatory columns has been rejected
C4_Witness ==
    /\ Rejected
    /\ uploaded_data.columns \cap {COL_CLASS, COL_FORM} = {}
    /\ Len(uploaded_data.rows) > 0
    /\ "error" \in DOMAIN processed_test_cases

\* C5: on a table that has both mandatory columns the processing step raises nothing
\* and stores a success result, whatever optional columns the table lacks
C5_BuildTotal ==
    Processed => exception = "" /\ "test_cases" \in DOMAIN processed_test_cases

\* the number of times a form is in the null tier list
TimesRecorded(f) == Cardinality({n \in 1..Len(NullTierForms) : NullTierForms[n] = f})

CompletedRun == pc = "done" /\ upload_progress_info.status = "complete"

\* the answers (responses and raised failures) to the requests of a kind for test case i
Answers(i, method) ==
    { trace[k].response : k \in { n \in 1..Len(trace) :
                                    /\ trace[n].ev = "response"
                                    /\ trace[n].case = i
                                    /\ trace[n].request.method = method } }

Raised(answer) == "raise" \in DOMAIN answer

Answered(answer) == "status_code" \in DOMAIN answer

TransportFailures == {"Timeout", "ConnectionError"}

IsSuccess(row) == row.Status = <<"Success">>

IsDryRun(row) == row.Status = <<"Dry Run">>

IsFailed(row) == Len(row.Status) = 3 /\ row.Status[1] = "Failed (" /\ row.Status[3] = ")"

IsError(row) == Len(row.Status) >= 1 /\ row.Status[1] = "Error: "

HasId(row) == "int" \in DOMAIN row.WorkItemID

\* C7: a completed run over n test cases has n rows; row i has the title and the number
\* of steps of test case i and exactly one of the four statuses; it has a remote
\* identifier exactly if it is a Success, and then the one the create request of test
\* case i returned
C7_Accounting ==
    CompletedRun =>
        LET rows == upload_results_data
            cases == processed_test_cases.test_cases
        IN /\ Len(rows) = Len(cases)
           /\ \A i \in 1..Len(rows) :
                 /\ rows[i].Title = cases[i].title
                 /\ rows[i].Steps = Len(cases[i].steps)
                 /\ Cardinality({n \in 1..4 : <<IsSuccess(rows[i]), IsDryRun(rows[i]),
                                                IsFailed(rows[i]), IsError(rows[i])>>[n]}) = 1
                 /\ HasId(rows[i]) <=> IsSuccess(rows[i])
                 /\ IsSuccess(rows[i]) =>
                       \E a \in Answers(i, "POST") :
                           /\ Answered(a)
                           /\ "id" \in DOMAIN a.json
                           /\ rows[i].WorkItemID = [int |-> a.json.id]

\* a completed run of two test cases, one a Success and one an Error
C7_Witness ==
    /\ CompletedRun
    /\ Len(upload_results_data) = 2
    /\ IsSuccess(upload_results_data[1])
    /\ IsError(upload_results_data[2])
    /\ HasId(upload_results_data[1])
    /\ ~HasId(upload_results_data[2])

\* C8: a test case with steps is a Success only if its create request and its update
\* request both succeeded
C8_NoPartialSuccess ==
    \A i \in 1..Len(all_results) :
        (~input.dry_run /\ IsSuccess(all_results[i]) /\ test_cases[i].steps # <<>>) =>
            /\ \E a \in Answers(i, "POST") : Answered(a) /\ a.status_code \in 200..299
            /\ \E a \in Answers(i, "PATCH") : Answered(a) /\ a.status_code \in 200..299

\* C9, the case it names: when the update request of a test case raises a transport
\* failure after its create request succeeded, no created work item is left behind a
\* row that reports an Error without an identifier
C9_NoOrphan ==
    \A i \in 1..Len(all_results) :
        (/\ ~input.dry_run
         /\ \E a \in Answers(i, "PATCH") : Raised(a)
         /\ IsError(all_results[i])
         /\ ~HasId(all_results[i])) =>
            ~\E k \in 1..Len(remote) : remote[k].case = i

\* the answer to the create request of test case i
CreateAnswer(i) == CHOOSE a \in Answers(i, "POST") : TRUE

\* a request of test case i raised a transport failure
TransportFailed(i) ==
    \E method \in {"POST", "PATCH"} : \E a \in Answers(i, method) :
        Raised(a) /\ a.raise \in TransportFailures

\* C10 as claimed: a test case is Failed(status) exactly when its create request
\* returned a status that is not 2xx, an Error exactly when a request of it raised a
\* transport failure, and a Success when the create request returned 2xx and no
\* transport failure occurred
C10_Outcome ==
    \A i \in 1..Len(all_results) :
        ~input.dry_run =>
            LET row == all_results[i]
                a == CreateAnswer(i)
            IN /\ IsFailed(row) <=>
                     (/\ Answered(a) /\ a.status_code \notin 200..299
                      /\ row.Status[2] = ToString(a.status_code))
               /\ IsError(row) <=> TransportFailed(i)
               /\ (Answered(a) /\ a.status_code \in 200..299 /\ ~TransportFailed(i)) =>
                     IsSuccess(row)

\* C10 as amended: a test case is Failed(status) exactly when its create request
\* returned a status other than 200 and 201, an Error exactly when a request of it
\* raised a transport failure or its create request returned 200 or 201 with a body
\* that has no readable id, and a Success when the create request returned 200 or 201
\* with a readable id and no transport failure occurred
C10_OutcomeByCode ==
    \A i \in 1..Len(all_results) :
        ~input.dry_run =>
            LET row == all_results[i]
                a == CreateAnswer(i)
                unreadable == Answered(a) /\ a.status_code \in {200, 201}
                              /\ "id" \notin DOMAIN a.json
            IN /\ IsFailed(row) <=>
                     (/\ Answered(a) /\ a.status_code \notin {200, 201}
                      /\ row.Status[2] = ToString(a.status_code))
               /\ IsError(row) <=> (TransportFailed(i) \/ unreadable)
               /\ (Answered(a) /\ a.status_code \in {200, 201} /\ ~unreadable
                   /\ ~TransportFailed(i)) => IsSuccess(row)

\* a run in which a create request answered with 201 made a Success, one answered with
\* 400 a Failed
C10_Witness ==
    /\ ~input.dry_run
    /\ Len(all_results) = 2
    /\ Answered(CreateAnswer(1)) /\ CreateAnswer(1).status_code = 201
    /\ IsSuccess(all_results[1])
    /\ Answered(CreateAnswer(2)) /\ CreateAnswer(2).status_code = 400
    /\ IsFailed(all_results[2])

\* the requests the run has issued, by their place in the trace
Requests == {k \in 1..Len(trace) : trace[k].ev = "request"}

\* C11: a dry run issues no request, and when it is over a non-empty list of test cases
\* the result list has the length of that list, every row a Dry Run without a remote
\* identifier
C11_DryRun ==
    input.dry_run =>
        /\ Requests = {}
        /\ inflight = None
        /\ remote = <<>>
        /\ \A i \in 1..Len(all_results) : IsDryRun(all_results[i])
        /\ CompletedRun =>
              /\ Len(upload_results_data) = Len(processed_test_cases.test_cases)
              /\ \A i \in 1..Len(upload_results_data) :
                    /\ IsDryRun(upload_results_data[i])
                    /\ ~HasId(upload_results_data[i])
                    /\ upload_results_data[i].WorkItemID = NA

\* a dry run over the longest list of test cases is over
C11_Witness ==
    /\ input.dry_run
    /\ CompletedRun
    /\ Len(processed_test_cases.test_cases) = MaxCases
    /\ Len(upload_results_data) = MaxCases
    /\ Requests = {}

\* ------------------------------------------------------------------------
\* The upload run, with every step of the handler taken and every request answered
\* ------------------------------------------------------------------------

\* the handler goes on whenever it can, and a request that was sent returns or raises;
\* every step of the run changes its position or its trace
SpecUploadLive == SpecUpload /\ WF_<<pc, trace>>(NextUpload)

\* the upload button was pressed with the configuration complete and a processing
\* result that is a success
RunStarted ==
    /\ pc = "begin"
    /\ configured
    /\ "test_cases" \in DOMAIN processed_test_cases

\* test case i was attempted: its progress was published and, unless the run is a dry
\* run, its create request was issued
Attempted(i) ==
    /\ \E k \in 1..Len(trace) :
          /\ trace[k].ev = "progress"
          /\ trace[k].info.status = "running"
          /\ trace[k].info.current = i
          /\ trace[k].info.message[Len(trace[k].info.message)] = ")"
    /\ ~input.dry_run =>
          \E k \in Requests : trace[k].case = i /\ trace[k].request.method = "POST"

\* C12: a run that has started with complete configuration and a success processing
\* result reaches the complete state with every test case of every batch attempted,
\* whatever the answers to its requests: a failure of one test case does not keep the
\* create request of a later one from being issued
C12_RunsToCompletion ==
    /\ RunStarted ~>
          (/\ CompletedRun
           /\ Len(upload_results_data) = Len(processed_test_cases.test_cases)
           /\ \A i \in 1..Len(processed_test_cases.test_cases) : Attempted(i))
    /\ [](\A i \in 1..Len(all_results) :
              (~input.dry_run /\ ~IsSuccess(all_results[i]) /\ i < total /\ pc # "case") =>
                  \E j \in (i + 1)..total : j <= Len(all_results) + 1 /\ Attempted(j))

\* a run of three test cases in two batches is complete although the first test case
\* ended as an Error and the second as Failed
C12_Witness ==
    /\ CompletedRun
    /\ ~input.dry_run
    /\ Len(upload_results_data) = 3
    /\ IsError(upload_results_data[1])
    /\ IsFailed(upload_results_data[2])
    /\ Attempted(3)

\* ------------------------------------------------------------------------
\* Properties of the batches and of the progress
\* ------------------------------------------------------------------------

\* a / b rounded up, for a >= 0 and b >= 1
Ceil(a, b) == CHOOSE k \in 0..a : (k - 1) * b < a /\ a <= k * b

\* the run is in the loop body of a test case
InLoop == pc \in {"case", "create", "update"}

\* C13: the n test cases of a run are taken in input order in ceil(n/B) batches, each
\* of B test cases except a last one that may be smaller, and the row of the test case
\* at position p carries the batch ceil(p/B) when there is more than one batch, N/A
\* when there is one
C13_Batching ==
    LET n == Len(test_cases)
        B == BATCH_SIZE
    IN /\ InLoop =>
             /\ num_batches = Ceil(n, B)
             /\ overall_idx = Len(all_results) + 1
             /\ batch_num + 1 = Ceil(overall_idx, B)
             /\ batch_size = IF batch_num + 1 < Ceil(n, B) THEN B
                             ELSE n - (Ceil(n, B) - 1) * B
             /\ batch_size \in 1..B
       /\ \A p \in 1..Len(all_results) :
             /\ all_results[p].Title = test_cases[p].title
             /\ all_results[p].Batch =
                   IF Ceil(n, B) > 1 THEN [int |-> Ceil(p, B)] ELSE [str |-> "N/A"]
       /\ CompletedRun => Len(all_results) = n

\* a run whose last batch is smaller than the others has recorded all its rows, the
\* first in batch 1 and the last in the last batch
C13_Witness ==
    /\ CompletedRun
    /\ Len(all_results) = MaxCases
    /\ MaxCases % BATCH_SIZE # 0
    /\ MaxCases > BATCH_SIZE
    /\ all_results[1].Batch = [int |-> 1]
    /\ all_results[BATCH_SIZE].Batch = [int |-> 1]
    /\ all_results[MaxCases].Batch = [int |-> Ceil(MaxCases, BATCH_SIZE)]

\* the progress snapshots of the run so far, those that carry a count, in the order
\* they were published; the notice of a large upload and the message of a run that
\* stops at the check of its configuration carry none
Snapshots ==
    LET published == SelectSeq(trace, LAMBDA e : e.ev = "progress"
                                                  /\ "current" \in DOMAIN e.info)
    IN [k \in 1..Len(published) |-> published[k].info]

\* C14: in the snapshots of one run total is constant, current never decreases and never
\* exceeds total, a snapshot with the position of a test case as current is published
\* before any request for that test case is issued, and the last snapshot of a run has
\* current = total
C14_ProgressMonotone ==
    /\ \A k \in 1..Len(Snapshots) :
          /\ Snapshots[k].total = Snapshots[1].total
          /\ Snapshots[k].total = Len(test_cases)
          /\ Snapshots[k].current <= Snapshots[k].total
          /\ k < Len(Snapshots) => Snapshots[k].current <= Snapshots[k + 1].current
    /\ \A r \in Requests :
          \E k \in 1..(r - 1) :
              /\ trace[k].ev = "progress"
              /\ "current" \in DOMAIN trace[k].info
              /\ trace[k].info.current = trace[r].case
    /\ CompletedRun =>
          /\ Snapshots[Len(Snapshots)].current = Snapshots[Len(Snapshots)].total
          /\ upload_progress_info = Snapshots[Len(Snapshots)]

\* a run in two batches is over: a snapshot for each test case, one for the pause
\* between the batches and the last one, and requests were issued
C14_Witness ==
    /\ CompletedRun
    /\ Len(test_cases) = MaxCases
    /\ num_batches = 2
    /\ Len(Snapshots) = MaxCases + 2
    /\ Requests # {}
    /\ \E k \in 1..(Len(Snapshots) - 1) : Snapshots[k].current = Snapshots[k + 1].current
    /\ \E k \in 1..(Len(Snapshots) - 1) : Snapshots[k].current < Snapshots[k + 1].current

\* ------------------------------------------------------------------------
\* Specification of several upload runs one after the other: the upload button is
\* pressed again when a run is over, with the form filled in some other way
\* ------------------------------------------------------------------------

\* the most upload runs in a row
MaxRuns == 2

\* the most test cases of the table of these runs
RunCases == 1

\* the mark that begins the trace of a run after the first
run_event(number) == [ev |-> "run", number |-> number]

\* the number of the run, from 1
RunNumber == IF trace # <<>> /\ trace[1].ev = "run" THEN trace[1].number ELSE 1

\* the upload button is pressed again: the handler is entered anew, its local variables
\* are fresh, the reactive values are what the earlier run left
upload_btn ==
    /\ pc = "done"
    /\ RunNumber < MaxRuns
    /\ input' \in Forms
    /\ pc' = "begin"
    /\ test_cases' = <<>>
    /\ all_results' = <<>>
    /\ batch_num' = 0
    /\ idx' = 1
    /\ work_item_id' = 0
    /\ inflight' = None
    /\ trace' = <<run_event(RunNumber + 1)>>
    /\ UNCHANGED <<build_vars, upload_results_data, upload_progress_info, remote, other_vars,
                   handler, exception>>

InitRuns ==
    /\ \E n \in 0..RunCases :
          /\ uploaded_data = SampleTable(n)
          /\ processed_test_cases \in
                {None, error_state(<<COL_FORM>>), processed_data(SampleTable(n))}
    /\ input \in Forms
    /\ pc = "begin"
    /\ NoUpload

NextRuns ==
    \/ upload_btn
    \/ upload_begin
    \/ case_start
    \/ create_raises
    \/ create_responds
    \/ update_raises
    \/ update_responds

SpecRuns == InitRuns /\ [][NextRuns]_vars

\* the rows that are stored: none before a run has stored any
StoredRows ==
    IF ToString(upload_results_data) = ToString(None) THEN <<>> ELSE upload_results_data

\* C15: when a run is over, the stored result rows are the rows that run produced, none
\* if it stopped before its first test case; rows of an earlier run are not kept
C15_ResultsReplaced == pc = "done" => StoredRows = all_results

\* ------------------------------------------------------------------------
\* Connection validation (validate_connection)
\* ------------------------------------------------------------------------

\* the status codes and the bodies the remote service answers the validation with
ValidateStatuses == {200, 201, 204, 401, 404}

ResponseTexts == {<<>>, [i \in 1..250 |-> IF i % 10 = 0 THEN " " ELSE "e"]}

\* the failures requests.get raises: the transport failures and one whose text, which
\* names the host and the URL, is longer than any prefix the code cuts
ValidateExceptions == Exceptions \cup {"SSLError"}

ValidateAnswers ==
    {[status_code |-> s, text |-> t] : s \in ValidateStatuses, t \in ResponseTexts}
    \cup {[raise |-> e] : e \in ValidateExceptions}

\* the request that reads the work item types of the project
test_request(organization, project) ==
    [method |-> "GET",
     url |-> <<"https://dev.azure.com/">> \o organization \o <<"/">> \o project
             \o <<"/_apis", "/wit/workitemtypes?api-version=7.0">>,
     timeout |-> 10]

\* faulty variant: every 2xx status counts as a connection
is_connected_2xx(status_code) == status_code \in 200..299

\* response.status_code == 200
is_connected(status_code) == status_code = 200

\* the value validation_status is set to when the request was answered (the messages
\* without the symbol they begin with)
validate_result(project, answer) ==
    IF "raise" \in DOMAIN answer
    THEN [success |-> FALSE, message |-> <<"Error: ">> \o exception_text(answer.raise)]
    ELSE IF is_connected(answer.status_code)
    THEN [success |-> TRUE, message |-> <<"Connection successful! Project: ">> \o project]
    ELSE [success |-> FALSE,
          message |-> <<"Connection failed: HTTP ", ToString(answer.status_code),
                        "\nResponse: ">> \o Take(answer.text, 200)]

\* the handler of the validate button: without organization, project or token it
\* reports at once; else it sends the request and reports what came of it
validate_connection ==
    /\ pc = "idle"
    /\ handler' = "validate_connection"
    /\ UNCHANGED <<build_vars, upload_vars, csv, text_in, text_out, exception>>
    /\ IF ~(truthy(input.organization) /\ truthy(input.project) /\ truthy(input.pat_token))
       THEN /\ validation_status' =
                  [success |-> FALSE,
                   message |-> <<"Please fill in organization, project, and PAT token.">>]
            /\ validate_trace' = <<>>
       ELSE \E answer \in ValidateAnswers :
               LET request == test_request(input.organization, input.project)
               IN /\ validate_trace' = <<request_event(0, request),
                                         response_event(0, request, answer)>>
                  /\ validation_status' = validate_result(input.project, answer)

ValidateForms ==
    { [organization |-> org, project |-> proj, pat_token |-> pat, dry_run |-> FALSE,
       area_path |-> <<>>] :
      org \in {<<>>, <<"iavi">>, <<" ">>}, proj \in {<<>>, <<"CRF">>, <<"EDC">>},
      pat \in {<<>>, <<"pat">>, <<"expired">>} }

InitValidate ==
    /\ input \in ValidateForms
    /\ uploaded_data = None
    /\ processed_test_cases = None
    /\ pc = "idle"
    /\ NoUpload

NextValidate == validate_connection

SpecValidate == InitValidate /\ [][NextValidate]_vars

\* the validation has run, with or without organization, project and token
Validated == handler = "validate_connection"

MissingInput == input.organization = <<>> \/ input.project = <<>> \/ input.pat_token = <<>>

ValidateRequests == {k \in 1..Len(validate_trace) : validate_trace[k].ev = "request"}

\* the answer to the one request of the validation
ValidateAnswer == validate_trace[Len(validate_trace)].response

\* C16 as claimed: without organization, project or token the validation fails with no
\* request; else it issues one read-only request, fails on a non-2xx response and on a
\* transport failure, and succeeds exactly when the request returns a 2xx status
C16_Validation ==
    Validated =>
        IF MissingInput
        THEN ValidateRequests = {} /\ ~validation_status.success
        ELSE /\ Cardinality(ValidateRequests) = 1
             /\ \A k \in ValidateRequests : validate_trace[k].request.method = "GET"
             /\ validation_status.success <=>
                   ("status_code" \in DOMAIN ValidateAnswer
                    /\ ValidateAnswer.status_code \in 200..299)

\* C16 as amended: ... and succeeds exactly when the request returns the status 200
C16_ValidationBy200 ==
    Validated =>
        IF MissingInput
        THEN ValidateRequests = {} /\ ~validation_status.success
        ELSE /\ Cardinality(ValidateRequests) = 1
             /\ \A k \in ValidateRequests : validate_trace[k].request.method = "GET"
             /\ validation_status.success <=>
                   ("status_code" \in DOMAIN ValidateAnswer
                    /\ ValidateAnswer.status_code = 200)

\* a validation whose request returned 204 has reported a failure
C16_Witness ==
    /\ Validated
    /\ ~MissingInput
    /\ Cardinality(ValidateRequests) = 1
    /\ "status_code" \in DOMAIN ValidateAnswer
    /\ ValidateAnswer.status_code = 204
    /\ ~validation_status.success

\* ------------------------------------------------------------------------
\* CSV serializer (download_processed)
\* ------------------------------------------------------------------------

\* a cell of the table that is written: a str or an int
StrCell(s) == [str |-> s]

\* faulty variant: the classification comes before the form name
columns_order_swapped ==
    << "ID", "Work Item Type", "Title", "Test Step", "Step Action", "Step Expected",
       "Custom.EditCheckName", "Custom.FieldName", "Custom.TestCaseClassification",
       "Custom.FormName", "Custom.TestingTier", "Area Path", "Assigned To", "State" >>

columns_order ==
    << "ID", "Work Item Type", "Title", "Test Step", "Step Action", "Step Expected",
       "Custom.EditCheckName", "Custom.FieldName", "Custom.FormName",
       "Custom.TestCaseClassification", "Custom.TestingTier", "Area Path", "Assigned To",
       "State" >>

\* the row of a test case: its metadata
header_row(case) ==
    [c \in {columns_order[j] : j \in 1..Len(columns_order)} |->
        CASE c = "Work Item Type" -> StrCell(<<"Test Case">>)
          [] c = "Title" -> StrCell(case.title)
          [] c = "Custom.FormName" -> StrCell(case.form_name)
          [] c = "Custom.TestCaseClassification" -> StrCell(case.classification)
          [] c = "Custom.TestingTier" -> StrCell(case.testing_tier)
          [] c = "Area Path" ->
                StrCell(IF truthy(case.area_path) THEN case.area_path ELSE <<>>)
          [] c = "State" -> StrCell(case.state)
          [] OTHER -> StrCell(<<>>)]

\* the row of a step
step_row(step) ==
    [c \in {columns_order[j] : j \in 1..Len(columns_order)} |->
        CASE c = "Test Step" -> IntCell(step.step_number)
          [] c = "Step Action" -> StrCell(step.action)
          [] c = "Step Expected" -> StrCell(step.expected)
          [] OTHER -> StrCell(<<>>)]

\* rows: for each test case its header row, then a row for each of its steps
download_rows(cases) ==
    Concat([t \in 1..Len(cases) |->
              <<header_row(cases[t])>>
              \o [k \in 1..Len(cases[t].steps) |-> step_row(cases[t].steps[k])]])

\* a cell as to_csv writes it: an int in decimal, a missing value as na_rep
to_csv_cell(cell) ==
    IF "int" \in DOMAIN cell THEN <<ToString(cell.int)>>
    ELSE IF isna(cell.str) THEN <<>>
    ELSE cell.str

\* DataFrame(rows, columns=columns).to_csv(index=False, na_rep=''): the header line and
\* the records, each the fields of a row in the order of the columns
to_csv(rows, columns) ==
    [header |-> columns,
     records |-> [k \in 1..Len(rows) |->
                    [j \in 1..Len(columns) |-> to_csv_cell(rows[k][columns[j]])]]]

\* what the download yields for a value of processed_test_cases
download_csv(processed_data_) ==
    IF processed_data_ = None
    THEN to_csv(<<[c \in {"Message"} |->
                     StrCell(<<"No processed test cases available. Please process CSV first.">>)]>>,
                <<"Message">>)
    ELSE IF "error" \in DOMAIN processed_data_ /\ processed_data_.error
    THEN to_csv(<<[c \in {"Error"} |-> StrCell(processed_data_.message)]>>, <<"Error">>)
    ELSE to_csv(download_rows(processed_data_.test_cases), columns_order)

\* faulty variant: the rows of the earlier download are kept and written again
download_processed_accumulates ==
    /\ pc = "idle"
    /\ handler' = "download_processed"
    /\ csv' = IF csv = None \/ csv.header # download_csv(processed_test_cases).header
              THEN download_csv(processed_test_cases)
              ELSE [header |-> csv.header,
                    records |-> csv.records \o download_csv(processed_test_cases).records]
    /\ UNCHANGED <<build_vars, upload_vars, validation_status, validate_trace, text_in,
                   text_out, exception>>

\* the handler of the download button
download_processed ==
    /\ pc = "idle"
    /\ handler' = "download_processed"
    /\ csv' = download_csv(processed_test_cases)
    /\ UNCHANGED <<build_vars, upload_vars, validation_status, validate_trace, text_in,
                   text_out, exception>>

\* a table is loaded, then processed and downloaded in any order, any number of times
InitDownload ==
    /\ \/ uploaded_data = None
       \/ \E n \in 0..MaxPartRows : \E fs \in [1..n -> FreeChoices(AllColumns)] :
             uploaded_data = MakeTable(AllColumns, fs)
       \/ \E n \in 0..MaxPartRows : \E fs \in [1..n -> FreeChoices(AllColumns \ {COL_FORM})] :
             uploaded_data = MakeTable(AllColumns \ {COL_FORM}, fs)
    /\ processed_test_cases = None
    /\ input = EmptyForm
    /\ pc = "idle"
    /\ NoUpload

NextDownload ==
    \/ process_test_cases
    \/ download_processed

SpecDownload == InitDownload /\ [][NextDownload]_vars

\* ------------------------------------------------------------------------
\* Properties of the serializer
\* ------------------------------------------------------------------------

\* the download button was pressed last, on a processing result that is a success
Serialized ==
    /\ handler = "download_processed"
    /\ "test_cases" \in DOMAIN processed_test_cases

\* the number of records before the header record of test case t
RECURSIVE Offset(_, _)
Offset(cases, t) ==
    IF t <= 1 THEN 0 ELSE Offset(cases, t - 1) + 1 + Len(cases[t - 1].steps)

\* the fields of a record by the name of their column, in the fixed order
Field(fields, column) ==
    fields[CHOOSE j \in 1..14 :
              << "ID", "Work Item Type", "Title", "Test Step", "Step Action",
                 "Step Expected", "Custom.EditCheckName", "Custom.FieldName",
                 "Custom.FormName", "Custom.TestCaseClassification", "Custom.TestingTier",
                 "Area Path", "Assigned To", "State" >>[j] = column]

MetadataColumns ==
    {"ID", "Work Item Type", "Title", "Custom.EditCheckName", "Custom.FieldName",
     "Custom.FormName", "Custom.TestCaseClassification", "Custom.TestingTier", "Area Path",
     "Assigned To", "State"}

StepColumns == {"Test Step", "Step Action", "Step Expected"}

\* C17: the serializer writes the 14 columns in their fixed order and, for each test
\* case in list order, one header record (item type, title, form name,
\* classification, testing tier, area path and state of the test case, the step fields
\* blank) and right after it one record for each step in step order (number, action and
\* expected, every other field blank): the sum over the test cases of 1 + steps records
C17_SerializerLayout ==
    Serialized =>
        LET cases == processed_test_cases.test_cases
            records == csv.records
        IN /\ csv.header =
                 << "ID", "Work Item Type", "Title", "Test Step", "Step Action",
                    "Step Expected", "Custom.EditCheckName", "Custom.FieldName",
                    "Custom.FormName", "Custom.TestCaseClassification",
                    "Custom.TestingTier", "Area Path", "Assigned To", "State" >>
           /\ Len(records) = Offset(cases, Len(cases) + 1)
           /\ \A k \in 1..Len(records) : Len(records[k]) = 14
           /\ \A t \in 1..Len(cases) :
                 LET head == records[Offset(cases, t) + 1]
                 IN /\ Field(head, "Work Item Type") = <<"Test Case">>
                    /\ Field(head, "Title") = cases[t].title
                    /\ Field(head, "Custom.FormName") = cases[t].form_name
                    /\ Field(head, "Custom.TestCaseClassification") = cases[t].classification
                    /\ Field(head, "Custom.TestingTier") = cases[t].testing_tier
                    /\ Field(head, "Area Path") = cases[t].area_path
                    /\ Field(head, "State") = cases[t].state
                    /\ \A c \in StepColumns \cup {"ID", "Custom.EditCheckName",
                                                  "Custom.FieldName", "Assigned To"} :
                          Field(head, c) = <<>>
                    /\ \A k \in 1..Len(cases[t].steps) :
                          LET rec == records[Offset(cases, t) + 1 + k]
                              step == cases[t].steps[k]
                          IN /\ Field(rec, "Test Step") = <<ToString(step.step_number)>>
                             /\ Field(rec, "Step Action") = step.action
                             /\ Field(rec, "Step Expected") = step.expected
                             /\ \A c \in MetadataColumns : Field(rec, c) = <<>>

\* two test cases, a standalone one with its four steps and a review of one step,
\* were written as seven records
C17_Witness ==
    /\ Serialized
    /\ Len(processed_test_cases.test_cases) = 2
    /\ processed_test_cases.test_cases[1].type = "standalone"
    /\ Len(processed_test_cases.test_cases[2].steps) = 1
    /\ Len(csv.records) = 7
    /\ Field(csv.records[1], "Title") # <<>>
    /\ Field(csv.records[5], "Test Step") = <<"4">>
    /\ Field(csv.records[6], "Title") # <<>>
    /\ Field(csv.records[7], "Test Step") = <<"1">>

\* the text a null value becomes when str is applied to it
NullMarker == <<"nan">>

\* C18: no test case of a processing result has a null marker as its testing tier, area
\* path or state, and no header record of the serializer has one in these fields
C18_NoNullMarkers ==
    /\ "test_cases" \in DOMAIN processed_test_cases =>
          \A t \in 1..Len(processed_test_cases.test_cases) :
              /\ processed_test_cases.test_cases[t].testing_tier # NullMarker
              /\ processed_test_cases.test_cases[t].area_path # NullMarker
              /\ processed_test_cases.test_cases[t].state # NullMarker
    /\ Serialized =>
          \A k \in 1..Len(csv.records) :
              /\ Field(csv.records[k], "Custom.TestingTier") # NullMarker
              /\ Field(csv.records[k], "Area Path") # NullMarker
              /\ Field(csv.records[k], "State") # NullMarker

MaxPieces == 3

\* the pieces the texts are made of: markup characters, a letter, a space, entities
Pieces ==
    { <<"<">>, <<">">>, <<"b">>, <<" ">>,
      <<"&", "l", "t", ";">>, <<"&", "g", "t", ";">>, <<"&", "a", "m", "p", ";">>,
      <<"&", "n", "b", "s", "p", ";">> }

\* the call: the text is a null cell or a str
normalize ==
    /\ pc = "idle"
    /\ text_out' = strip_html_tags(text_in)
    /\ handler' = "strip_html_tags"
    /\ UNCHANGED <<build_vars, upload_vars, validation_status, validate_trace, csv, text_in,
                   exception>>

InitNormalize ==
    /\ \/ text_in = NaN
       \/ \E n \in 0..MaxPieces : \E ps \in [1..n -> Pieces] : text_in = Concat(ps)
    /\ uploaded_data = None
    /\ processed_test_cases = None
    /\ input = EmptyForm
    /\ pc = "idle"
    /\ upload_results_data = None
    /\ upload_progress_info = None
    /\ test_cases = <<>>
    /\ all_results = <<>>
    /\ batch_num = 0
    /\ idx = 1
    /\ work_item_id = 0
    /\ inflight = None
    /\ trace = <<>>
    /\ remote = <<>>
    /\ handler = ""
    /\ exception = ""
    /\ validation_status = None
    /\ validate_trace = <<>>
    /\ csv = None
    /\ text_out = None

NextNormalize == normalize

SpecNormalize == InitNormalize /\ [][NextNormalize]_vars

\* the normalizer has returned
Normalized == handler = "strip_html_tags"

\* the text has a markup tag: a "<", one or more characters that are not ">", a ">"
HasTag(s) ==
    \E i \in 1..Len(s) : \E j \in (i + 2)..Len(s) :
        /\ s[i] = "<"
        /\ s[j] = ">"
        /\ \A k \in (i + 1)..(j - 1) : s[k] # ">"

\* C20: what the normalizer returns has no markup tag, no whitespace at its ends and no
\* two whitespace characters in a row, and is empty for a null input; also for inputs
\* with the entities of angle brackets
C20_NormalizerForm ==
    Normalized =>
        /\ ~HasTag(text_out)
        /\ text_out # <<>> => ~IsSpace(text_out[1]) /\ ~IsSpace(text_out[Len(text_out)])
        /\ \A k \in 1..(Len(text_out) - 1) : ~(IsSpace(text_out[k]) /\ IsSpace(text_out[k + 1]))
        /\ text_in = NaN => text_out = <<>>

\* ------------------------------------------------------------------------
\* The builder on tables of one form with every kind of tier value
\* ------------------------------------------------------------------------

MaxTierRows == 2

\* the tier cells: missing, blank, the three tiers (one with a space at its end) and
\* a tier the code does not know
TierSamples == {NaN, <<" ">>, TIER_1, TIER_2, <<"Tier 2", " ">>, TIER_3, <<"Tier 9">>}

TierChoices ==
    { f \in [FreeColumns -> ClassCells \cup {<<"F1">>} \cup TierSamples] :
        f[COL_CLASS] \in ClassCells /\ f[COL_FORM] = <<"F1">> /\ f[COL_TIER] \in TierSamples }

InitTiers ==
    /\ \E n \in 0..MaxTierRows : \E fs \in [1..n -> TierChoices] :
          uploaded_data = MakeTable(AllColumns, fs)
    /\ processed_test_cases = None
    /\ input = EmptyForm
    /\ pc = "idle"
    /\ NoUpload

NextTiers == process_test_cases

SpecTiers == InitTiers /\ [][NextTiers]_vars

\* the text of a step whose tier is none of the three tiers
DefaultText(class, i) ==
    IF class = FIELD_LEVEL
    THEN <<"Field ", "'">> \o str(InputRows[i][COL_FIELD])
         \o <<"'", " validates correctly. ">> \o strip_html_tags(InputRows[i][COL_TEXT])
    ELSE <<"Edit check ", "'">> \o str(InputRows[i][COL_EDIT])
         \o <<"'", " functions correctly. ">> \o strip_html_tags(InputRows[i][COL_TEXT])

\* C21: the expected text of every step of a field_reviews or edit_check_reviews test
\* case is decided by the trimmed effective tier of the step's row alone: the Tier 1,
\* Tier 2 or Tier 3 text of the classification for these three tiers, and for any other
\* or empty tier the default text made of the row's name and normalized description
C21_ExpectedByTier ==
    Built =>
        \A t \in 1..Len(Cases) :
            Cases[t].type # "standalone" =>
                \A k \in 1..Len(Cases[t].steps) :
                    LET i == Cases[t].steps[k].idx
                        class == InputRows[i][COL_CLASS]
                        tier == Trimmed(EffectiveTier(i))
                    IN Cases[t].steps[k].expected =
                          IF tier \in {<<"Tier 1">>, <<"Tier 2">>, <<"Tier 3">>}
                          THEN TierText(class, tier)
                          ELSE DefaultText(class, i)

\* a Field Level row of Tier 3 has the Tier 3 text and an Edit Check Level row of an
\* unknown tier has the default text
C21_Witness ==
    /\ Built
    /\ \E t, u \in 1..Len(Cases) :
          /\ Cases[t].type = "field_reviews"
          /\ TierOf(Cases[t].steps[1].idx) = <<"Tier 3">>
          /\ Cases[t].steps[1].expected = <<"Correct variable format, length, calculation.">>
          /\ Cases[u].type = "edit_check_reviews"
          /\ TierOf(Cases[u].steps[1].idx) = <<"Tier 9">>
          /\ Cases[u].steps[1].expected[1] = "Edit check "

\* ------------------------------------------------------------------------
\* Uploads of test cases built from tables with and without the Area Path column
\* ------------------------------------------------------------------------

\* the column sets of the tables: a table without the Area Path column gives test cases
\* whose own area path is empty
AreaHeaders == {AllColumns, AllColumns \ {COL_AREA}}

InitArea ==
    /\ \E n \in 0..MaxCases : \E h \in AreaHeaders :
          /\ uploaded_data = MakeTable(h, [i \in 1..n |-> Cyc(SampleRows, i)])
          /\ processed_test_cases \in
                {None, error_state(<<COL_FORM>>), processed_data(uploaded_data)}
    /\ input \in Forms
    /\ pc = "begin"
    /\ NoUpload

SpecArea == InitArea /\ [][NextUpload]_vars

\* the values of the area path operations of a JSON patch
AreaPathValues(json) ==
    {json[j].value : j \in {n \in 1..Len(json) : json[n].path = "/fields/System.AreaPath"}}

AreaPathOps(json) ==
    Cardinality({n \in 1..Len(json) : json[n].path = "/fields/System.AreaPath"})

CreateRequests == {k \in Requests : trace[k].request.method = "POST"}

\* C22: area path precedence: a dry run sends no create request, and the payload of
\* every create request carries the area path input when that is not empty, else the
\* test case's own area path when that is not empty, and no area path operation when
\* both are empty; it never carries more than one
C22_AreaPathPrecedence ==
    /\ input.dry_run => CreateRequests = {}
    /\ \A k \in CreateRequests :
          LET json == trace[k].request.json
              own == processed_test_cases.test_cases[trace[k].case].area_path
          IN /\ AreaPathOps(json) <= 1
             /\ AreaPathValues(json) =
                   IF input.area_path # <<>> THEN {input.area_path}
                   ELSE IF own # <<>> THEN {own}
                   ELSE {}

\* a create request without an area path operation has been sent and answered: the area
\* path input is empty and the test case, built from a table without the Area Path
\* column, has no area path of its own
C22_Witness ==
    \E k \in CreateRequests :
        /\ input.area_path = <<>>
        /\ processed_test_cases.test_cases[trace[k].case].area_path = <<>>
        /\ AreaPathOps(trace[k].request.json) = 0
        /\ Answers(trace[k].case, "POST") # {}

\* a create request carries the area path input although the test case has an area path
\* of its own
C22_Override ==
    \E k \in CreateRequests :
        /\ input.area_path = <<"Study\\Override">>
        /\ processed_test_cases.test_cases[trace[k].case].area_path = <<"Study\\CRF">>
        /\ AreaPathValues(trace[k].request.json) = {<<"Study\\Override">>}

\* ------------------------------------------------------------------------
\* Pacing of a run
\* ------------------------------------------------------------------------

\* the place in the trace where test case i is started: its running snapshot
Starts(i) ==
    {k \in 1..Len(trace) :
        /\ trace[k].ev = "progress"
        /\ trace[k].info.status = "running"
        /\ trace[k].info.current = i
        /\ trace[k].info.message[Len(trace[k].info.message)] = ")"}

StartOf(i) == CHOOSE k \in Starts(i) : TRUE

\* the place where the test case after i is started, or the end of the trace
NextStartOf(i) == IF Starts(i + 1) # {} THEN StartOf(i + 1) ELSE Len(trace) + 1

\* the sleeps of the given length after test case i is started and before the next
\* test case is
SleepsOf(i, seconds) ==
    {k \in (StartOf(i) + 1)..(NextStartOf(i) - 1) : trace[k] = sleep_event(seconds)}

\* the requests and answers of test case i
TrafficOf(i) ==
    {k \in 1..Len(trace) : trace[k].ev \in {"request", "response"} /\ trace[k].case = i}

\* test case i is the last of a batch that is not the last batch
EndsBatch(i) == i % BATCH_SIZE = 0 /\ i < total

\* the pause between the batch test case i ends and the next: one sleep of 2 seconds,
\* after the other sleeps of the test case, and none inside a batch
BatchPause(i) ==
    IF EndsBatch(i)
    THEN /\ Cardinality(SleepsOf(i, <<"2">>)) = 1
         /\ \A k \in SleepsOf(i, <<"0.5">>) \cup SleepsOf(i, <<"0.05">>) :
               \A p \in SleepsOf(i, <<"2">>) : k < p
    ELSE SleepsOf(i, <<"2">>) = {}

\* C23 as stated: every test case that has ended, a Dry Run too, is followed by the
\* settle sleep of 0.5 seconds before the next test case is started, and a batch that
\* is not the last one by the pause of 2 seconds
C23_Pacing ==
    \A i \in 1..Len(all_results) :
        /\ Cardinality(SleepsOf(i, <<"0.5">>)) = 1
        /\ \A k \in SleepsOf(i, <<"0.5">>) : \A r \in TrafficOf(i) : r < k
        /\ BatchPause(i)

\* C23: pacing: in a run that is not a dry run every test case that has ended, as
\* Success, Failed or Error, is followed by one settle sleep of 0.5 seconds after its
\* last answer and before the next test case is started; in a dry run a test case has
\* the simulated delay of 0.05 seconds and no settle sleep; in both, a batch that is
\* not the last one is followed by one pause of 2 seconds, after these sleeps and
\* before the next batch is started
C23_PacingOfUploads ==
    \A i \in 1..Len(all_results) :
        /\ IF IsDryRun(all_results[i])
           THEN /\ Cardinality(SleepsOf(i, <<"0.05">>)) = 1
                /\ SleepsOf(i, <<"0.5">>) = {}
           ELSE /\ IsSuccess(all_results[i]) \/ IsFailed(all_results[i])
                   \/ IsError(all_results[i])
                /\ Cardinality(SleepsOf(i, <<"0.5">>)) = 1
                /\ SleepsOf(i, <<"0.05">>) = {}
                /\ TrafficOf(i) # {}
                /\ \A k \in SleepsOf(i, <<"0.5">>) : \A r \in TrafficOf(i) : r < k
        /\ BatchPause(i)

\* a run of three test cases in two batches is over, one test case ended as Success,
\* one as Failed and one as Error
C23_Witness ==
    /\ CompletedRun
    /\ ~input.dry_run
    /\ Len(all_results) = 3
    /\ \E i, j, k \in 1..3 :
          IsSuccess(all_results[i]) /\ IsFailed(all_results[j]) /\ IsError(all_results[k])
    /\ Cardinality({k \in 1..Len(trace) : trace[k] = sleep_event(<<"0.5">>)}) = 3
    /\ Cardinality({k \in 1..Len(trace) : trace[k] = sleep_event(<<"2">>)}) = 2

\* ------------------------------------------------------------------------
\* Request protocol of a run
\* ------------------------------------------------------------------------

RequestsOf(i, method) ==
    {k \in Requests : trace[k].case = i /\ trace[k].request.method = method}

Responses == {k \in 1..Len(trace) : trace[k].ev = "response"}

\* the answer to the request at place k of the trace: the first response after it
AnswerTo(k) == {r \in Responses : r > k /\ \A n \in (k + 1)..(r - 1) : n \notin Responses}

\* the create request of test case i was answered before place k with a created work
\* item whose identifier could be read
CreatedBefore(i, k) ==
    \E r \in Responses :
        /\ r < k
        /\ trace[r].case = i
        /\ trace[r].request.method = "POST"
        /\ Answered(trace[r].response)
        /\ trace[r].response.status_code \in {200, 201}
        /\ trace[r].response.json # NoJson

\* C24: request protocol without retry: a dry run issues no request; a test case has at
\* most one create request and at most one update request; its update request comes
\* after its create request was answered with a created work item, and only if it has
\* a step; every request is answered, by a response or a failure, before the next
\* request is issued, the requests go through the test cases in order, at most one
\* request is in flight and it is the last one issued; a test case whose request failed
\* or was refused gets no further request
C24_RequestProtocol ==
    /\ input.dry_run => Requests = {}
    /\ \A i \in 1..Len(test_cases) :
          /\ Cardinality(RequestsOf(i, "POST")) <= 1
          /\ Cardinality(RequestsOf(i, "PATCH")) <= 1
          /\ \A k \in RequestsOf(i, "PATCH") :
                /\ CreatedBefore(i, k)
                /\ Len(test_cases[i].steps) >= 1
    /\ \A k \in Requests :
          /\ trace[k].case \in 1..Len(test_cases)
          /\ trace[k].request.method \in {"POST", "PATCH"}
          /\ \A n \in Requests :
                n > k => /\ trace[n].case >= trace[k].case
                         /\ \E r \in AnswerTo(k) : r < n
          /\ \A r \in AnswerTo(k) :
                /\ trace[r].case = trace[k].case
                /\ trace[r].request = trace[k].request
                /\ (Raised(trace[r].response)
                    \/ trace[r].response.status_code \notin {200, 201}) =>
                      \A n \in Requests : n > r => trace[n].case > trace[k].case
    /\ Cardinality(Requests) - Cardinality(Responses) \in {0, 1}
    /\ IF inflight = None
       THEN Cardinality(Requests) = Cardinality(Responses)
       ELSE /\ Cardinality(Requests) = Cardinality(Responses) + 1
            /\ \E k \in Requests :
                  /\ trace[k].request = inflight
                  /\ AnswerTo(k) = {}
                  /\ \A n \in Requests : n <= k

\* the create request of a test case timed out, the update request of the next one
\* timed out after its work item was created, and the create request of the third test
\* case is in flight: no request was sent twice
C24_Witness ==
    /\ \E r \in Responses :
          /\ trace[r].case = 1 /\ trace[r].request.method = "POST"
          /\ trace[r].response = [raise |-> "Timeout"]
    /\ \E r \in Responses :
          /\ trace[r].case = 2 /\ trace[r].request.method = "PATCH"
          /\ trace[r].response = [raise |-> "Timeout"]
    /\ RequestsOf(3, "POST") # {}
    /\ inflight # None
    /\ Cardinality(Requests) = 4

\* ------------------------------------------------------------------------
\* Diagnostic messages
\* ------------------------------------------------------------------------

\* the longest prefix the code cuts from a response text or an exception text
DiagnosticLimit == 200

\* the number of characters of the response or exception text in the message of a failed
\* validation: the message without its fixed beginning
ValidationDiagnostic ==
    IF Raised(ValidateAnswer) THEN Len(validation_status.message) - 1
    ELSE Len(validation_status.message) - 3

\* C25: bounded diagnostics: the message of a failed validation, after a response that is
\* not a success or after a transport exception, and the status of a Failed or Error
\* row of an upload hold at most a prefix of fixed length of the response or exception
\* text, whatever the length of that text
C25_BoundedDiagnostics ==
    /\ (Validated /\ ValidateRequests # {} /\ ~validation_status.success) =>
          ValidationDiagnostic <= DiagnosticLimit
    /\ \A i \in 1..Len(all_results) :
          /\ IsError(all_results[i]) => Len(all_results[i].Status) - 1 <= DiagnosticLimit
          /\ IsFailed(all_results[i]) => Len(all_results[i].Status) = 3

\* the part of C25 about the responses of the validation and about the rows of an upload
C25_CutDiagnostics ==
    /\ (Validated /\ ValidateRequests # {} /\ ~validation_status.success
        /\ ~Raised(ValidateAnswer)) =>
          ValidationDiagnostic <= DiagnosticLimit
    /\ \A i \in 1..Len(all_results) :
          /\ IsError(all_results[i]) => Len(all_results[i].Status) - 1 <= 50
          /\ IsFailed(all_results[i]) => Len(all_results[i].Status) = 3

\* ------------------------------------------------------------------------
\* Numbering and order of the steps
\* ------------------------------------------------------------------------

\* the rows of the group of review test case t: the rows of its form and classification
\* with the effective tier of the row of its first step
GroupOf(t) ==
    {i \in 1..Len(InputRows) :
        /\ InputRows[i][COL_FORM] = Cases[t].form_name
        /\ InputRows[i][COL_CLASS] = Cases[t].classification
        /\ EffectiveTier(i) = EffectiveTier(Cases[t].steps[1].idx)}

\* the name a step of row i carries: the field name or the edit check name of the row,
\* empty when the table has no such column
NameOf(i, column) ==
    IF column \in DOMAIN InputRows[i] THEN str(InputRows[i][column]) ELSE <<>>

\* C26: the steps of every test case are numbered 1, 2, ..., n; a field_reviews or
\* edit_check_reviews test case has one step for each row of its group, the k-th step
\* is the step of the k-th of these rows in the order of the table and carries the
\* field name or the edit check name of that row
C26_StepNumbering ==
    Built =>
        \A t \in 1..Len(Cases) :
            /\ Len(Cases[t].steps) >= 1
            /\ \A k \in 1..Len(Cases[t].steps) : Cases[t].steps[k].step_number = k
            /\ Cases[t].type # "standalone" =>
                  /\ Len(Cases[t].steps) = Cardinality(GroupOf(t))
                  /\ \A k \in 1..Len(Cases[t].steps) :
                        LET i == Cases[t].steps[k].idx
                        IN /\ i \in GroupOf(t)
                           /\ Cardinality({j \in GroupOf(t) : j <= i}) = k
                           /\ IF Cases[t].type = "field_reviews"
                              THEN Cases[t].steps[k].field_name = NameOf(i, COL_FIELD)
                              ELSE Cases[t].steps[k].edit_check_name = NameOf(i, COL_EDIT)

\* a field_reviews test case has two steps, of the first and the third row of the
\* table, with the field names of these rows; the second row is not in its group
C26_Witness ==
    /\ Built
    /\ \E t \in 1..Len(Cases) :
          /\ Cases[t].type = "field_reviews"
          /\ Len(Cases[t].steps) = 2
          /\ Cases[t].steps[1].idx = 1 /\ Cases[t].steps[1].step_number = 1
          /\ Cases[t].steps[2].idx = 3 /\ Cases[t].steps[2].step_number = 2
          /\ Cases[t].steps[1].field_name = <<"AGE">>
          /\ Cases[t].steps[2].field_name = <<"DOB">>

\* ------------------------------------------------------------------------
\* Grouping and the tier that selects the expected text
\* ------------------------------------------------------------------------

\* row i has a step in some test case
Placed(i) == \E t \in 1..Len(Cases) : InCase(i, t)

\* the expected texts of the steps of test case t
ExpectedTexts(t) == {Cases[t].steps[k].expected : k \in 1..Len(Cases[t].steps)}

\* C27: grouping agrees with tier selection: two rows of one form and classification
\* that are in test cases and whose effective tiers are equal after trimming are in the
\* same test case, and no form has two test cases of one classification whose steps all
\* have the expected text of the same tier
C27_GroupingByTrimmedTier ==
    Built =>
        /\ \A i, j \in 1..Len(InputRows) :
              (/\ IsReviewRow(i) /\ IsReviewRow(j)
               /\ Placed(i) /\ Placed(j)
               /\ InputRows[i][COL_FORM] = InputRows[j][COL_FORM]
               /\ InputRows[i][COL_CLASS] = InputRows[j][COL_CLASS]
               /\ Trimmed(EffectiveTier(i)) = Trimmed(EffectiveTier(j))) =>
                  \E t \in 1..Len(Cases) : InCase(i, t) /\ InCase(j, t)
        /\ \A t, u \in 1..Len(Cases) :
              (/\ t # u
               /\ Cases[t].type # "standalone"
               /\ Cases[t].form_name = Cases[u].form_name
               /\ Cases[t].classification = Cases[u].classification) =>
                  \A tier \in {TIER_1, TIER_2, TIER_3} :
                      ~(/\ ExpectedTexts(t) = {TierText(Cases[t].classification, tier)}
                        /\ ExpectedTexts(u) = {TierText(Cases[t].classification, tier)})

====
